---- MODULE Spec2Model ----
(***************************************************************************)
(* State-machine model of the renderer stores of codehs/bottleneck.       *)
(*                                                                         *)
(* Part 1: the sync store (src/src/renderer/stores/syncStore.ts).          *)
(* Part 2: the issue store (src/src/renderer/stores/issueStore.ts).        *)
(*                                                                         *)
(* JavaScript runs every synchronous block to completion, so one action    *)
(* is one synchronous block of a handler: the code from a call (or from    *)
(* the resumption after an await, or a timer callback) up to the next      *)
(* await.  Remote calls (prStore.fetchRepositories, fetchPullRequests,     *)
(* auth.getToken, api.getPullRequest) and timers are the environment:      *)
(* they settle, or fire, at any later step.                                *)
(***************************************************************************)
EXTENDS Integers, Sequences, FiniteSets, TLC

(***************************************************************************)
(* Bounds of the model.                                                    *)
(***************************************************************************)
\* Number of calls of syncAll / syncRepository / syncPullRequest in one run
\* of the model (accepted or rejected), of any mix of the three.
MaxCalls == 2

\* Task slots: the k-th call of a sync operation runs in slot k.
Tasks == 1..MaxCalls

\* Number of calls of operations of the issue store in one run of the model.
MaxIssueCalls == 2
ICalls == 1..MaxIssueCalls

\* Number of fetchIssues calls in one run of the model of fetchIssues alone.
MaxFetchCalls == 3
FCalls == 1..MaxFetchCalls

\* The slots of the calls of the issue store.
ISlots == ICalls \cup FCalls

(***************************************************************************)
(* Program constants.                                                      *)
(***************************************************************************)
\* syncStore.ts:79   set({ syncProgress: 20 })
ReposProgress == 20
\* syncStore.ts:117  20 + 80 * (completed / totalRepos)
BatchShare == 80
\* syncStore.ts:119  Math.min(progress, 99)
ProgressCap == 99
\* syncStore.ts:135  syncProgress: 100
FullProgress == 100

(***************************************************************************)
(* Values.                                                                 *)
(***************************************************************************)
\* A repository is identified by its full_name ("owner/name"); its id is
\* in one-to-one correspondence with it.
Scopes == {"o/a", "o/b", "o/c"}
NoRepo == "null"

\* prStore state read by syncAll (selectedRepo, recentlyViewedRepos).  The
\* list is whatever prStore holds; syncAll does not check it for repeats.
RepoConfigs ==
  { [selected |-> NoRepo, recent |-> << >>],
    [selected |-> "o/a",  recent |-> << >>],
    [selected |-> "o/a",  recent |-> <<"o/a", "o/b">>],
    [selected |-> NoRepo, recent |-> <<"o/a", "o/b", "o/c">>],
    [selected |-> NoRepo, recent |-> <<"o/b", "o/b">>] }

\* (error as Error).message of a rejected remote call.
ErrorMessages == {"Network error"}

\* Pull-request numbers passed to syncPullRequest.
PRNumbers == {7}

\* prStore is outside this store; a call of prStore.updatePR is an output
\* of the step that makes it.  Its argument: the record found in
\* mockPullRequests, or the record api.getPullRequest returned.
NoPR == "null"
MockPR(number) == "mock#" \o ToString(number)
ApiPR(number) == "api#" \o ToString(number)

\* Credentials the authentication provider can return.
DevToken == "dev-token"
RealToken == "ghp_token"
NoToken == "null"
Tokens == {NoToken, DevToken, RealToken}

\* lastSyncTime: null, the date restored from localStorage, or the date
\* taken by `new Date()` in the completion of task t.
NoTime == "null"
DateOf(t) == "date#" \o ToString(t)

\* syncProgress is a JavaScript number; 20 + 80 * (completed / total) is a
\* fraction.  Progress values are kept exact by scaling them with PScale,
\* a common multiple of every possible totalRepos.
RECURSIVE Factorial(_)
Factorial(n) == IF n <= 1 THEN 1 ELSE n * Factorial(n - 1)
MaxTotal == 3
PScale == Factorial(MaxTotal)
P(n) == n * PScale

\* Lines 25-35: the stored date, or null when localStorage holds none.
getInitialSyncTime(stored) == IF stored # NoTime THEN stored ELSE NoTime

Min(a, b) == IF a <= b THEN a ELSE b

\* Issue store: the scopes and issue numbers of the calls, the `state` of an
\* issue, and the `error` of the store when there is none.
IssueScopes == {"o/a", "o/b"}
IssueNumbers == {1, 2}
IssueStates == {"open", "closed"}
NoError == "null"

VARIABLES
  isSyncing,            \* syncStore.ts:38
  lastSyncTime,         \* syncStore.ts:39
  syncProgress,         \* syncStore.ts:40  (scaled by PScale)
  syncMessage,          \* syncStore.ts:41
  syncErrors,           \* syncStore.ts:42
  syncDebounceTimer,    \* syncStore.ts:43  (0 = null, else the slot whose timer it is)
  selectedRepo,         \* prStore.selectedRepo
  recentlyViewedRepos,  \* prStore.recentlyViewedRepos
  updatePR,             \* the argument of the prStore.updatePR call of the last step (null = no call)
  task,                 \* the sync calls: their position and their promises
  timers,               \* the pending setTimeout callbacks
  cont,                 \* slot of the syncAll run that is inside a synchronous block (0 = none)
  issues,               \* issueStore.ts:47  key -> record (the active index)
  repoIssueCache,       \* issueStore.ts:48  scope -> (key -> record)
  loadedRepos,          \* issueStore.ts:49
  loading,              \* issueStore.ts:50
  error,                \* issueStore.ts:51
  icall,                \* the calls of the issue store: their position and their locals
  electron,             \* window.electron is defined (the desktop build)
  devin,                \* devinStore.ts:96-101  the state of the store
  devinCacheSaveTimer,  \* devinStore.ts:50  (0 = null, else the id of the timer)
  devinTimers,          \* the pending setTimeout callbacks of saveDevinCache
  devinCache,           \* the value the settings store holds under "devinCache"
  settingsSet,          \* the settings.set("devinCache", ...) calls in flight
  hydrate,              \* the loadDevinCache() call of the store creation
  dfetch,               \* fetchDevinComments: its position, and the calls made
  devinLog,             \* counts of the saveDevinCache calls and of their writes
  labelStore,           \* labelStore.ts:22-24  labels, loading, lastFetched
  lcall,                \* the fetchLabels calls: their position and their locals
  clock,                \* Date.now(), in units of half a cache duration
  orgStore,             \* organizationSyncStore.ts:45-46  organizations, loading
  orgStorage,           \* localStorage under "organizationSyncSettings"
  ocall                 \* the fetchUserOrganizations calls

syncVars == <<isSyncing, lastSyncTime, syncProgress, syncMessage, syncErrors,
              syncDebounceTimer>>
prVars == <<selectedRepo, recentlyViewedRepos>>
vars == <<isSyncing, lastSyncTime, syncProgress, syncMessage, syncErrors,
          syncDebounceTimer, selectedRepo, recentlyViewedRepos, updatePR,
          task, timers, cont,
          issues, repoIssueCache, loadedRepos, loading, error, icall,
          electron, devin, devinCacheSaveTimer, devinTimers, devinCache,
          settingsSet, hydrate, dfetch, devinLog,
          labelStore, lcall, clock, orgStore, orgStorage, ocall>>

\* The variables of the issue store, those of the Devin store, and those
\* outside the issue store; an action of one store leaves the others alone.
issueVars == <<issues, repoIssueCache, loadedRepos, loading, error, icall>>
devinVars == <<electron, devin, devinCacheSaveTimer, devinTimers, devinCache,
               settingsSet, hydrate, dfetch, devinLog>>
labelVars == <<labelStore, lcall, clock>>
orgVars == <<orgStore, orgStorage, ocall>>
otherStores == <<issueVars, devinVars, labelVars, orgVars>>
syncSide == <<isSyncing, lastSyncTime, syncProgress, syncMessage, syncErrors,
              syncDebounceTimer, selectedRepo, recentlyViewedRepos, updatePR,
              task, timers, cont, devinVars, labelVars, orgVars>>
devinSide == <<isSyncing, lastSyncTime, syncProgress, syncMessage, syncErrors,
               syncDebounceTimer, selectedRepo, recentlyViewedRepos, updatePR,
               task, timers, cont, issueVars, labelVars, orgVars>>
restSide == <<isSyncing, lastSyncTime, syncProgress, syncMessage, syncErrors,
              syncDebounceTimer, selectedRepo, recentlyViewedRepos, updatePR,
              task, timers, cont, issueVars, devinVars>>

\* A task that was not called yet.
FreshTask ==
  [ kind      |-> "none",     \* "syncAll" | "syncRepository" | "syncPullRequest"
    pc        |-> "init",
    repos     |-> << >>,      \* reposToSync of a syncAll run
    fetch     |-> << >>,      \* syncPromises: "pending" | "ok" | "failed" per repo
    completed |-> 0,          \* the counter of updateProgress
    number    |-> 0,          \* the `number` argument of syncPullRequest
    token     |-> NoToken ]   \* the local `token` of syncPullRequest

\* A task whose async function has returned: its locals are gone.
DoneTask == [FreshTask EXCEPT !.pc = "done"]

\* A call that the guard rejected.
RejectedTask(kind) == [FreshTask EXCEPT !.kind = kind, !.pc = "rejected"]

Active(t) == task[t].pc \notin {"init", "rejected", "done"}

\* A pending timer: the debounce timer of line 60 (1000 ms) or the message
\* auto-clear timer of lines 144, 186, 246 (3000 ms), set by task `owner`.
Timer(kind, owner) == [kind |-> kind, owner |-> owner]

\* Slots are used in order: slot t is called once every earlier slot was.
Callable(t) ==
  /\ cont = 0
  /\ task[t].pc = "init"
  /\ \A u \in Tasks : u < t => task[u].pc # "init"

(***************************************************************************)
(* The issue store: its values and its initial state.                      *)
(*                                                                         *)
(* The k-th call of an operation of the store runs in slot k of icall.     *)
(* The slot of a fetchIssues call keeps, after the call returned, what the *)
(* call was, how many remote calls it made and how it ended; so does, in   *)
(* part, the slot of a refreshIssueLinks call and of a call that threw.    *)
(* The locals of the other calls are gone when they return.                *)
(***************************************************************************)
\* The key of a record in a Map of the store: `${owner}/${repo}#${number}`.
IssueKey(scope, number) == scope \o "#" \o ToString(number)
IssueKeys == {IssueKey(s, n) : s \in IssueScopes, n \in IssueNumbers}

\* An optional field of a record: absent (undefined) or holding a value.
Undefined == << >>
Def(v) == <<v>>
\* a ?? b
Coalesce(a, b) == IF a # Undefined THEN a ELSE b

\* A record as the remote API returns it: the authoritative fields only.
ApiIssue(scope, number, state) ==
  [ repository      |-> scope,
    number          |-> number,
    state           |-> state,
    labels          |-> << >>,
    linkedPRs       |-> Undefined,
    isUpdatingLinks |-> Undefined ]

\* The answers of api.getIssues (number -> state): no issue, one issue, or
\* two issues of the scope.
Payloads ==
  { [n \in {} |-> "open"],
    [n \in {1} |-> "open"],
    [n \in {1, 2} |-> IF n = 1 THEN "closed" ELSE "open"] }

\* mockIssues, the fixture list used with the offline sentinel.
mockIssues == [n \in IssueNumbers |-> "open"]

\* Lines 104-107: the Map built from the fetched list.
IssueMapOf(scope, payload) ==
  [k \in {IssueKey(scope, n) : n \in DOMAIN payload} |->
     LET n == CHOOSE m \in DOMAIN payload : IssueKey(scope, m) = k
     IN ApiIssue(scope, n, payload[n])]

\* new Map(m).set(k, v)
MapSet(m, k, v) ==
  [x \in DOMAIN m \cup {k} |-> IF x = k THEN v ELSE m[x]]

\* m.get(k) of a Map of records (the empty Map for a missing scope).
EmptyMap == [k \in {} |-> Undefined]

\* A slot that was not called yet.
IFresh ==
  [ op     |-> "none",
    pc     |-> "init",
    scope  |-> NoRepo,         \* `${owner}/${repo}`
    number |-> 0,              \* issueNumber
    nums   |-> {},             \* issueNumbers of a bulk operation
    prs    |-> << >>,          \* prNumbers / prNumber
    labels |-> << >>,          \* labels of addLabelsToIssues
    issue  |-> Undefined,      \* the local `issue` of linkPRsToIssue / unlinkPRFromIssue
    force  |-> FALSE,          \* force / forceAPI
    quiet  |-> FALSE,          \* no other call was under way when it was made
    remote |-> 0,              \* remote API calls it issued
    out    |-> "none" ]        \* "ok" | "failed" | "skipped" once it returned

\* A call under way: it was made and has not returned.
IActive(c) == icall[c].pc \notin {"init", "done"}
IRunning == {c \in ISlots : IActive(c)}

\* Slots are used in order.
ICallable(c) ==
  /\ icall[c].pc = "init"
  /\ \A d \in ISlots : d < c => icall[d].pc # "init"

\* The slot of a call made now.
ICalled(c, op, scope) ==
  [IFresh EXCEPT !.op = op, !.scope = scope, !.quiet = (IRunning = {})]

\* The slot of a call that returns now.  out = "thrown": the promise of
\* the call is rejected (the catch block rethrows).
IReturn(r, out) ==
  IF r.op = "fetchIssues"
    THEN [r EXCEPT !.pc = "done", !.out = out]
  ELSE IF r.op = "refreshIssueLinks"
    THEN [IFresh EXCEPT !.op = r.op, !.pc = "done", !.force = r.force,
                        !.remote = r.remote]
  ELSE IF out = "thrown"
    THEN [IFresh EXCEPT !.pc = "done", !.remote = r.remote, !.out = out]
    ELSE [IFresh EXCEPT !.pc = "done"]

\* Lines 46-50: the initial state of the store.
IssueStoreInit ==
  /\ issues = EmptyMap
  /\ repoIssueCache = [s \in {} |-> EmptyMap]
  /\ loadedRepos = {}
  /\ loading = FALSE
  /\ error = NoError
  /\ icall = [c \in ISlots |-> IFresh]


(***************************************************************************)
(* The values of the Devin store (devinStore.ts).                          *)
(***************************************************************************)

\* Number of fetchDevinComments calls, and of clearComments calls, in one run.
MaxDevinCalls == 2
MaxClears == 1

\* Time values (ms) of the created_at of the comments the API returns.
Instants == {10, 20}

\* A Date object is its time value: <<ms>>, or << >> for an Invalid Date.
InvalidDate == << >>

\* The ISO-8601 text of a time value.
ISO8601(ms) == "T" \o ToString(ms)

\* A save that writes the dates in the format of the locale.
toLocaleString(d) == "L" \o ToString(d[1])

\* Line 62, Date.prototype.toISOString of a valid date.  It throws a
\* RangeError on an Invalid Date (see SaveTimerFires).
toISOString(d) == ISO8601(d[1])

\* Lines 38 and 184, new Date(text): the date whose ISO-8601 text this is, and
\* an Invalid Date for any other text and for undefined.
NewDate(text) ==
  IF \E ms \in Instants : ISO8601(ms) = text
    THEN <<CHOOSE ms \in Instants : ISO8601(ms) = text>>
    ELSE InvalidDate

\* Lines 170-185: the comment built from a review thread (`id` stands for
\* all the fields that are copied as they are).
DevinComment(id, created_at) == [id |-> id, createdAt |-> NewDate(created_at)]

\* The comments one fetch collects, in the order the loops push them.
ApiLists ==
  { << >>,
    << DevinComment(1, "T10") >>,
    << DevinComment(1, "T10"), DevinComment(2, "T20") >> }

\* Lines 60-63: the entry of the snapshot for a comment, and the map over
\* the list.
CacheEntry(c) == [id |-> c.id, createdAt |-> toISOString(c.createdAt)]

RECURSIVE CacheEntries(_)
CacheEntries(comments) ==
  IF comments = << >> THEN << >>
  ELSE <<CacheEntry(Head(comments))>> \o CacheEntries(Tail(comments))

\* Lines 36-39: the comment revived from an entry of the snapshot, and the
\* map over the list.
RevivedComment(e) == [id |-> e.id, createdAt |-> NewDate(e.createdAt)]

RECURSIVE RevivedComments(_)
RevivedComments(entries) ==
  IF entries = << >> THEN << >>
  ELSE <<RevivedComment(Head(entries))>> \o RevivedComments(Tail(entries))

\* The values of the settings store under "devinCache": null (also what a
\* store that never held the key answers), an object with `comments` and
\* `lastFetched`, and a value without a `comments` array.
NoSnapshot == [kind |-> "null", comments |-> << >>, lastFetched |-> Undefined]
Snapshot(comments, lastFetched) ==
  [kind |-> "object", comments |-> comments, lastFetched |-> Def(lastFetched)]
NotASnapshot == [kind |-> "string", comments |-> << >>, lastFetched |-> Undefined]

\* Lines 59-65: cacheData of a save.
cacheData(comments, lastFetched) ==
  Snapshot(CacheEntries(comments), lastFetched)

\* What the settings store may hold when the application starts: nothing, a
\* snapshot an earlier session saved, a value that is no snapshot, and a
\* snapshot whose entry lacks createdAt.
StoredAtStart ==
  { NoSnapshot,
    cacheData(<< DevinComment(1, "T10") >>, 0),
    NotASnapshot,
    Snapshot(<< [id |-> 1, createdAt |-> "undefined"] >>, 0) }

\* Lines 124, 134, 201, Date.now() of the k-th fetchDevinComments call.
DateNow(k) == k

\* How settings.get settles: { success: true, value }, { success: false },
\* or a rejection.
GetOutcomes == {"success", "failure", "rejected"}

\* Lines 30-47: what loadDevinCache resolves to.  A value without a
\* `comments` array makes line 36 throw, and line 42 catches it.
loadDevinCache(el, outcome, value) ==
  IF el /\ outcome = "success" /\ value.kind = "object"
    THEN [comments |-> RevivedComments(value.comments),
          lastFetched |-> value.lastFetched]
    ELSE [comments |-> << >>, lastFetched |-> Undefined]

\* Lines 86-101: the store after its creation; loadDevinCache is in flight.
DevinStoreInit(el, stored) ==
  /\ electron = el
  /\ devin = [comments |-> << >>, loading |-> FALSE, error |-> NoError,
              lastFetched |-> Undefined, cacheLoaded |-> FALSE]
  /\ devinCacheSaveTimer = 0
  /\ devinTimers = {}
  /\ devinCache = stored
  /\ settingsSet = << >>
  /\ hydrate = [pc |-> IF el THEN "get" ELSE "settled",
                outcome |-> "none", value |-> NoSnapshot]
  /\ dfetch = [pc |-> "idle", calls |-> 0, clears |-> 0]
  /\ devinLog = [saves |-> 0, bursts |-> 0, writes |-> 0,
                 last |-> [comments |-> << >>, lastFetched |-> 0]]

\* The sync store and prStore after construction.
SyncStoreInit ==
  /\ isSyncing = FALSE
  /\ lastSyncTime = getInitialSyncTime(NoTime)
  /\ syncProgress = 0
  /\ syncMessage = ""
  /\ syncErrors = << >>
  /\ syncDebounceTimer = 0
  /\ \E c \in RepoConfigs :
       /\ selectedRepo = c.selected
       /\ recentlyViewedRepos = c.recent
  /\ updatePR = NoPR
  /\ task = [t \in Tasks |-> FreshTask]
  /\ timers = {}
  /\ cont = 0

(***************************************************************************)
(* The values of the label store (labelStore.ts).                          *)
(***************************************************************************)

\* Number of fetchLabels calls in one run, and how far the clock runs.
MaxLabelCalls == 3
MaxTicks == 1
LCalls == 1..MaxLabelCalls

\* Line 19, one hour, in ticks of the clock (a tick is one hour).
CACHE_DURATION == 1

\* `${owner}/${repo}` of the calls, and the answers of api.getRepoLabels.
LabelRepos == {"o/a", "o/b"}
RepoLabels == { << >>, <<"bug">> }

\* A slot that was not called yet.
LFresh ==
  [ pc     |-> "init",
    repo   |-> NoRepo,
    force  |-> FALSE,       \* forceRefresh
    now    |-> 0,           \* the local `now`
    cached |-> Undefined,   \* the local `cached`
    remote |-> 0,           \* remote calls it issued
    out    |-> << >> ]      \* the list it returned

\* Lines 22-24: three empty Maps (a key without entry is undefined).
LabelStoreInit ==
  /\ labelStore = [labels      |-> [r \in LabelRepos |-> Undefined],
                   loading     |-> [r \in LabelRepos |-> Undefined],
                   lastFetched |-> [r \in LabelRepos |-> Undefined]]
  /\ lcall = [c \in LCalls |-> LFresh]
  /\ clock = CACHE_DURATION

(***************************************************************************)
(* The values of the organization store (organizationSyncStore.ts).        *)
(***************************************************************************)

\* Number of fetchUserOrganizations calls in one run.
MaxOrgCalls == 2
OCalls == 1..MaxOrgCalls

\* The logins, and the answers of api.getUserOrganizations.
Logins == {"acme", "beta"}
OrgAnswers == { << >>, <<"acme">>, <<"acme", "beta">> }

\* OrgSyncSettings (avatar_url is copied as it is and left out).
OrgSetting(login, syncing) == [login |-> login, isSyncing |-> syncing]

\* Line 36, JSON.stringify of the list: the text, as its tokens.
RECURSIVE JSONstringify(_)
JSONstringify(orgs) ==
  IF orgs = << >> THEN << >>
  ELSE <<Head(orgs).login, IF Head(orgs).isSyncing THEN "true" ELSE "false">>
         \o JSONstringify(Tail(orgs))

\* Line 25, JSON.parse: it throws on a text that is no JSON.
IsJSON(text) ==
  /\ Len(text) % 2 = 0
  /\ \A i \in 1..Len(text) : i % 2 = 0 => text[i] \in {"true", "false"}

RECURSIVE JSONparse(_)
JSONparse(text) ==
  IF text = << >> THEN << >>
  ELSE <<OrgSetting(text[1], text[2] = "true")>>
         \o JSONparse(SubSeq(text, 3, Len(text)))

\* Lines 21-31: no item, or a text that does not parse, give the empty list.
loadFromStorage(stored) ==
  IF stored # Undefined /\ IsJSON(stored[1]) THEN JSONparse(stored[1]) ELSE << >>

\* What localStorage may hold at start: nothing, the settings an earlier
\* session saved, or a text that is no JSON.
StoredOrgsAtStart ==
  { Undefined,
    Def(JSONstringify(<<OrgSetting("acme", FALSE)>>)),
    Def(<<"{">>) }

\* A slot that was not called yet.  `toggled` is not state of the program:
\* for each login, the value of the last toggleOrgSync made on it, while it
\* was in the list, since the call began.
OFresh == [pc |-> "init", toggled |-> [l \in Logins |-> Undefined]]

\* Lines 42-46.
OrgStoreInit(stored) ==
  /\ orgStorage = stored
  /\ orgStore = [organizations |-> loadFromStorage(stored), loading |-> FALSE]
  /\ ocall = [c \in OCalls |-> OFresh]

Init ==
  /\ SyncStoreInit
  /\ IssueStoreInit
  /\ DevinStoreInit(TRUE, NoSnapshot)
  /\ LabelStoreInit
  /\ OrgStoreInit(Undefined)

(***************************************************************************)
(* addSyncError / clearSyncErrors                                          *)
(***************************************************************************)
addSyncError(errors, err) == Append(errors, err)

clearSyncErrors ==
  /\ updatePR' = NoPR
  /\ UNCHANGED otherStores
  /\ cont = 0
  /\ syncErrors' = << >>
  /\ UNCHANGED <<isSyncing, lastSyncTime, syncProgress, syncMessage,
                 syncDebounceTimer, selectedRepo, recentlyViewedRepos, task, timers, cont>>

(***************************************************************************)
(* syncAll                                                                 *)
(***************************************************************************)
\* A clearTimeout that cancels nothing.
ClearTimeoutKeeps(ts, h) == ts

\* clearTimeout(state.syncDebounceTimer): a pending timer is cancelled.
ClearTimeout(ts, h) == ts \ {Timer("debounce", h)}

\* A guard that lets every call through.
SyncGuardAbsent == FALSE

\* The guard of syncAll and syncRepository: `if (state.isSyncing) return`.
SyncGuard == isSyncing

\* syncAll, lines 46-78: the guard, the debounce timer, the first two `set`
\* calls and the call of prStore.fetchRepositories().
syncAll(t) ==
  /\ updatePR' = NoPR
  /\ UNCHANGED otherStores
  /\ Callable(t)
  /\ IF SyncGuard
       THEN /\ task' = [task EXCEPT ![t] = RejectedTask("syncAll")]
            /\ UNCHANGED <<syncVars, prVars, timers, cont>>
       ELSE /\ task' = [task EXCEPT ![t].kind = "syncAll",
                                    ![t].pc = "fetchRepositories"]
            /\ timers' = ClearTimeout(timers, syncDebounceTimer)
                            \cup {Timer("debounce", t)}
            /\ isSyncing' = TRUE
            /\ syncProgress' = 0
            /\ syncMessage' = "Fetching repositories..."
            /\ syncErrors' = << >>
            /\ syncDebounceTimer' = t
            /\ UNCHANGED <<lastSyncTime, prVars, cont>>

\* The debounce timer callback, lines 60-62.
DebounceTimerFires(t) ==
  /\ updatePR' = NoPR
  /\ UNCHANGED otherStores
  /\ cont = 0
  /\ Timer("debounce", t) \in timers
  /\ timers' = timers \ {Timer("debounce", t)}
  /\ syncDebounceTimer' = 0
  /\ UNCHANGED <<isSyncing, lastSyncTime, syncProgress, syncMessage, syncErrors,
                 prVars, task, cont>>

\* Lines 86-88: selected repo first, then the recent repos other than it.
RECURSIVE FilterOut(_, _)
FilterOut(s, id) ==
  IF s = << >> THEN << >>
  ELSE IF Head(s) = id THEN FilterOut(Tail(s), id)
       ELSE <<Head(s)>> \o FilterOut(Tail(s), id)

reposToSync(selected, recent) ==
  IF selected # NoRepo
    THEN <<selected>> \o FilterOut(recent, selected)
    ELSE recent

\* A catch block that forgets to reset the running flag.
SyncAllCatchStaysSyncing(t, msg) ==
  /\ syncMessage' = "Sync failed"
  /\ syncProgress' = 0
  /\ syncErrors' = Append(syncErrors, msg)
  /\ task' = [task EXCEPT ![t] = DoneTask]
  /\ UNCHANGED <<isSyncing, lastSyncTime, syncDebounceTimer, prVars, timers, cont>>

\* A catch block that stamps the time of the run.
SyncAllCatchStampsTime(t, msg) ==
  /\ isSyncing' = FALSE
  /\ syncMessage' = "Sync failed"
  /\ syncProgress' = 0
  /\ syncErrors' = addSyncError(syncErrors, msg)
  /\ lastSyncTime' = DateOf(t)
  /\ task' = [task EXCEPT ![t] = DoneTask]
  /\ UNCHANGED <<syncDebounceTimer, prVars, timers, cont>>

\* Lines 147-154: the catch block of syncAll.
SyncAllCatch(t, msg) ==
  /\ isSyncing' = FALSE
  /\ syncMessage' = "Sync failed"
  /\ syncProgress' = 0
  /\ syncErrors' = addSyncError(syncErrors, msg)
  /\ task' = [task EXCEPT ![t] = DoneTask]
  /\ UNCHANGED <<lastSyncTime, syncDebounceTimer, prVars, timers, cont>>

\* prStore.fetchRepositories() rejects: the run goes to its catch block.
FetchRepositoriesRejects(t) ==
  /\ updatePR' = NoPR
  /\ UNCHANGED otherStores
  /\ cont = 0
  /\ task[t].kind = "syncAll"
  /\ task[t].pc = "fetchRepositories"
  /\ \E msg \in ErrorMessages : SyncAllCatch(t, msg)

\* prStore.fetchRepositories() resolves, lines 79-111: progress 20, the
\* scope set, and either the empty branch (lines 93-96) or one
\* fetchPullRequests call per repo, all issued before the first await.
FetchRepositoriesResolves(t) ==
  /\ updatePR' = NoPR
  /\ UNCHANGED otherStores
  /\ cont = 0
  /\ task[t].kind = "syncAll"
  /\ task[t].pc = "fetchRepositories"
  /\ LET rs == reposToSync(selectedRepo, recentlyViewedRepos)
         totalRepos == Len(rs)
     IN IF totalRepos = 0
          THEN /\ syncProgress' = P(FullProgress)
               /\ syncMessage' = "No repositories to sync"
               /\ task' = [task EXCEPT ![t].pc = "settled"]
               /\ cont' = t
          ELSE /\ syncProgress' = P(ReposProgress)
               /\ syncMessage' = syncMessage
               /\ task' = [task EXCEPT
                             ![t].pc = "batch",
                             ![t].repos = rs,
                             ![t].fetch = [i \in 1..totalRepos |-> "pending"]]
               /\ cont' = cont
  /\ UNCHANGED <<isSyncing, lastSyncTime, syncErrors, syncDebounceTimer, prVars,
                 timers>>

\* One fetchPullRequests promise of the batch resolves.
FetchPullRequestsResolves(t, i) ==
  /\ updatePR' = NoPR
  /\ UNCHANGED otherStores
  /\ cont = 0
  /\ task[t].kind = "syncAll"
  /\ task[t].pc = "batch"
  /\ i \in 1..Len(task[t].fetch)
  /\ task[t].fetch[i] = "pending"
  /\ task' = [task EXCEPT ![t].fetch[i] = "ok"]
  /\ UNCHANGED <<syncVars, prVars, timers, cont>>

\* The message of lines 107-109.
FailedToSync(repo, msg) == "Failed to sync " \o repo \o ": " \o msg

\* A batch without the per-repo .catch: the rejection reaches the catch
\* block of syncAll and ends the run.
FetchPullRequestsRejectsAborts(t, i) ==
  /\ updatePR' = NoPR
  /\ UNCHANGED otherStores
  /\ cont = 0
  /\ task[t].kind = "syncAll"
  /\ task[t].pc = "batch"
  /\ i \in 1..Len(task[t].fetch)
  /\ task[t].fetch[i] = "pending"
  /\ \E msg \in ErrorMessages : SyncAllCatch(t, msg)

\* One fetchPullRequests promise of the batch rejects: its .catch handler
\* (lines 106-110) adds the error and the promise of syncPromises resolves.
FetchPullRequestsRejects(t, i) ==
  /\ updatePR' = NoPR
  /\ UNCHANGED otherStores
  /\ cont = 0
  /\ task[t].kind = "syncAll"
  /\ task[t].pc = "batch"
  /\ i \in 1..Len(task[t].fetch)
  /\ task[t].fetch[i] = "pending"
  /\ \E msg \in ErrorMessages :
       syncErrors' = addSyncError(syncErrors, FailedToSync(task[t].repos[i], msg))
  /\ task' = [task EXCEPT ![t].fetch[i] = "failed"]
  /\ UNCHANGED <<isSyncing, lastSyncTime, syncProgress, syncMessage,
                 syncDebounceTimer, prVars, timers, cont>>

\* Line 117 and 119: the progress published for `completed` of `totalRepos`,
\* scaled by PScale.
BatchProgress(completed, totalRepos) ==
  Min(P(ReposProgress) + (BatchShare * completed * PScale) \div totalRepos,
      P(ProgressCap))

SyncingMessage(completed, totalRepos) ==
  "Syncing " \o ToString(completed) \o "/" \o ToString(totalRepos) \o " repos..."

\* Lines 125-128, one iteration of the loop: `await promise` returns for
\* the next promise of syncPromises (in list order) and updateProgress()
\* runs.  After the last iteration the same synchronous block goes on to
\* line 131 (cont).
updateProgress(t) ==
  /\ updatePR' = NoPR
  /\ UNCHANGED otherStores
  /\ cont = 0
  /\ task[t].kind = "syncAll"
  /\ task[t].pc = "batch"
  /\ LET completed == task[t].completed + 1
         totalRepos == Len(task[t].repos)
     IN /\ task[t].fetch[completed] # "pending"
        /\ syncProgress' = BatchProgress(completed, totalRepos)
        /\ syncMessage' = SyncingMessage(completed, totalRepos)
        /\ IF completed = totalRepos
             THEN /\ task' = [task EXCEPT ![t].completed = completed,
                                          ![t].pc = "settled"]
                  /\ cont' = t
             ELSE /\ task' = [task EXCEPT ![t].completed = completed]
                  /\ cont' = cont
  /\ UNCHANGED <<isSyncing, lastSyncTime, syncErrors, syncDebounceTimer, prVars,
                 timers>>

\* Lines 131-146: batch completion and the auto-clear timer.
SyncAllComplete(t) ==
  /\ updatePR' = NoPR
  /\ UNCHANGED otherStores
  /\ cont = t
  /\ task[t].pc = "settled"
  /\ isSyncing' = FALSE
  /\ lastSyncTime' = DateOf(t)
  /\ syncProgress' = P(FullProgress)
  /\ syncMessage' = "Sync complete!"
  /\ syncErrors' = << >>
  /\ task' = [task EXCEPT ![t] = DoneTask]
  /\ timers' = timers \cup {Timer("clearAll", t)}
  /\ cont' = 0
  /\ UNCHANGED <<syncDebounceTimer, prVars>>

\* Lines 144-146: the auto-clear timer of syncAll fires.
SyncAllClearTimerFires(t) ==
  /\ updatePR' = NoPR
  /\ UNCHANGED otherStores
  /\ cont = 0
  /\ Timer("clearAll", t) \in timers
  /\ timers' = timers \ {Timer("clearAll", t)}
  /\ syncMessage' = ""
  /\ syncProgress' = 0
  /\ UNCHANGED <<isSyncing, lastSyncTime, syncErrors, syncDebounceTimer, prVars,
                 task, cont>>

(***************************************************************************)
(* syncRepository                                                          *)
(***************************************************************************)
SyncingRepositoryMessage(scope) == "Syncing " \o scope \o "..."

\* Lines 158-173: the guard, the first `set` and the forced
\* prStore.fetchPullRequests(owner, repo, true) call.
syncRepository(t, scope) ==
  /\ updatePR' = NoPR
  /\ UNCHANGED otherStores
  /\ Callable(t)
  /\ IF SyncGuard
       THEN /\ task' = [task EXCEPT ![t] = RejectedTask("syncRepository")]
            /\ UNCHANGED <<syncVars, prVars, timers, cont>>
       ELSE /\ task' = [task EXCEPT ![t].kind = "syncRepository",
                                    ![t].pc = "fetchPullRequests"]
            /\ isSyncing' = TRUE
            /\ syncMessage' = SyncingRepositoryMessage(scope)
            /\ UNCHANGED <<lastSyncTime, syncProgress, syncErrors,
                           syncDebounceTimer, prVars, timers, cont>>

\* Lines 175-188: the fetch resolved.
SyncRepositoryComplete(t) ==
  /\ updatePR' = NoPR
  /\ UNCHANGED otherStores
  /\ cont = 0
  /\ task[t].kind = "syncRepository"
  /\ task[t].pc = "fetchPullRequests"
  /\ isSyncing' = FALSE
  /\ lastSyncTime' = DateOf(t)
  /\ syncMessage' = "Repository synced!"
  /\ syncErrors' = << >>
  /\ task' = [task EXCEPT ![t] = DoneTask]
  /\ timers' = timers \cup {Timer("clearRepository", t)}
  /\ UNCHANGED <<syncProgress, syncDebounceTimer, prVars, cont>>

\* Lines 189-195: the catch block of syncRepository and of syncPullRequest
\* (lines 249-255), which are the same code.
SyncCatch(t, msg) ==
  /\ isSyncing' = FALSE
  /\ syncMessage' = "Sync failed"
  /\ syncErrors' = addSyncError(syncErrors, msg)
  /\ task' = [task EXCEPT ![t] = DoneTask]
  /\ UNCHANGED <<lastSyncTime, syncProgress, syncDebounceTimer, prVars, timers, cont>>

\* The fetch rejected.
SyncRepositoryFails(t) ==
  /\ updatePR' = NoPR
  /\ UNCHANGED otherStores
  /\ cont = 0
  /\ task[t].kind = "syncRepository"
  /\ task[t].pc = "fetchPullRequests"
  /\ \E msg \in ErrorMessages : SyncCatch(t, msg)

\* Lines 186-188 and 246-248: the auto-clear timer of syncRepository or of
\* syncPullRequest fires.
MessageClearTimerFires(t) ==
  /\ updatePR' = NoPR
  /\ UNCHANGED otherStores
  /\ cont = 0
  /\ \E k \in {"clearRepository", "clearPR"} :
       /\ Timer(k, t) \in timers
       /\ timers' = timers \ {Timer(k, t)}
  /\ syncMessage' = ""
  /\ UNCHANGED <<isSyncing, lastSyncTime, syncProgress, syncErrors,
                 syncDebounceTimer, prVars, task, cont>>

(***************************************************************************)
(* syncPullRequest                                                         *)
(***************************************************************************)
SyncingPRMessage(number) == "Syncing PR #" \o ToString(number) \o "..."

\* Lines 199-215: the first `set` (there is no isSyncing check) and the
\* await of the credential (auth.getToken(), or the import of authStore).
syncPullRequest(t, number) ==
  /\ updatePR' = NoPR
  /\ UNCHANGED otherStores
  /\ Callable(t)
  /\ task' = [task EXCEPT ![t].kind = "syncPullRequest", ![t].pc = "getToken",
                           ![t].number = number]
  /\ isSyncing' = TRUE
  /\ syncMessage' = SyncingPRMessage(number)
  /\ UNCHANGED <<lastSyncTime, syncProgress, syncErrors, syncDebounceTimer,
                 prVars, timers, cont>>

\* A credential check without the offline sentinel: "dev-token" is used as
\* a real credential.
TokenArrivesNoSentinel(t, token) ==
  /\ updatePR' = NoPR
  /\ UNCHANGED otherStores
  /\ cont = 0
  /\ task[t].kind = "syncPullRequest"
  /\ task[t].pc = "getToken"
  /\ IF token = NoToken
       THEN SyncCatch(t, "Not authenticated")
       ELSE /\ task' = [task EXCEPT ![t].token = token,
                                    ![t].pc = "importGitHub"]
            /\ UNCHANGED <<syncVars, prVars, timers, cont>>

\* Lines 217-229: the credential arrived.  Without one the run throws
\* "Not authenticated"; with the offline sentinel it awaits the import of
\* the fixture data, otherwise the import of the API client.
TokenArrives(t, token) ==
  /\ updatePR' = NoPR
  /\ UNCHANGED otherStores
  /\ cont = 0
  /\ task[t].kind = "syncPullRequest"
  /\ task[t].pc = "getToken"
  /\ IF token = NoToken
       THEN SyncCatch(t, "Not authenticated")
       ELSE /\ task' = [task EXCEPT ![t].token = token,
                                    ![t].pc =
                          IF token = DevToken THEN "importMockData"
                                              ELSE "importGitHub"]
            /\ UNCHANGED <<syncVars, prVars, timers, cont>>

\* auth.getToken() rejects.
TokenFails(t) ==
  /\ updatePR' = NoPR
  /\ UNCHANGED otherStores
  /\ cont = 0
  /\ task[t].kind = "syncPullRequest"
  /\ task[t].pc = "getToken"
  /\ \E msg \in ErrorMessages : SyncCatch(t, msg)

\* A success path that also clears the error list, as syncRepository does.
SyncPullRequestSuccessClearsErrors(t) ==
  /\ isSyncing' = FALSE
  /\ lastSyncTime' = DateOf(t)
  /\ syncMessage' = "PR synced!"
  /\ syncErrors' = << >>
  /\ task' = [task EXCEPT ![t] = DoneTask]
  /\ timers' = timers \cup {Timer("clearPR", t)}
  /\ UNCHANGED <<syncProgress, syncDebounceTimer, prVars, cont>>

\* Lines 240-248: the success path of syncPullRequest.
SyncPullRequestSuccess(t) ==
  /\ isSyncing' = FALSE
  /\ lastSyncTime' = DateOf(t)
  /\ syncMessage' = "PR synced!"
  /\ task' = [task EXCEPT ![t] = DoneTask]
  /\ timers' = timers \cup {Timer("clearPR", t)}
  /\ UNCHANGED <<syncProgress, syncErrors, syncDebounceTimer, prVars, cont>>

\* Lines 221-227, 240-248: the fixture data is imported, the record (if
\* mockPullRequests holds one of that number) goes to prStore.updatePR, and
\* the run completes.  No remote call is made on this path.
MockDataImported(t) ==
  /\ cont = 0
  /\ task[t].kind = "syncPullRequest"
  /\ task[t].pc = "importMockData"
  /\ \E found \in BOOLEAN :
       updatePR' = IF found THEN MockPR(task[t].number) ELSE NoPR
  /\ UNCHANGED otherStores
  /\ SyncPullRequestSuccess(t)

\* Lines 229-233: the API client is imported and api.getPullRequest is
\* called.
GitHubImported(t) ==
  /\ updatePR' = NoPR
  /\ UNCHANGED otherStores
  /\ cont = 0
  /\ task[t].kind = "syncPullRequest"
  /\ task[t].pc = "importGitHub"
  /\ task' = [task EXCEPT ![t].pc = "getPullRequest"]
  /\ UNCHANGED <<syncVars, prVars, timers, cont>>

\* Lines 235-248: api.getPullRequest resolved; its record goes to
\* prStore.updatePR and the run completes.
GetPullRequestResolves(t) ==
  /\ cont = 0
  /\ task[t].kind = "syncPullRequest"
  /\ task[t].pc = "getPullRequest"
  /\ updatePR' = ApiPR(task[t].number)
  /\ UNCHANGED otherStores
  /\ SyncPullRequestSuccess(t)

\* api.getPullRequest rejected.
GetPullRequestRejects(t) ==
  /\ updatePR' = NoPR
  /\ UNCHANGED otherStores
  /\ cont = 0
  /\ task[t].kind = "syncPullRequest"
  /\ task[t].pc = "getPullRequest"
  /\ \E msg \in ErrorMessages : SyncCatch(t, msg)

(***************************************************************************)
(* The sync store as a whole.                                              *)
(***************************************************************************)
\* setSyncProgress (lines 258-263) is a plain setter that nothing in the
\* repository calls; the steps below are the calls of the three sync
\* operations and of clearSyncErrors, and what follows from them.
Next ==
  \/ \E t \in Tasks : syncAll(t)
  \/ \E t \in Tasks : DebounceTimerFires(t)
  \/ \E t \in Tasks : FetchRepositoriesResolves(t)
  \/ \E t \in Tasks : FetchRepositoriesRejects(t)
  \/ \E t \in Tasks : \E i \in 1..MaxTotal : FetchPullRequestsResolves(t, i)
  \/ \E t \in Tasks : \E i \in 1..MaxTotal : FetchPullRequestsRejects(t, i)
  \/ \E t \in Tasks : updateProgress(t)
  \/ \E t \in Tasks : SyncAllComplete(t)
  \/ \E t \in Tasks : SyncAllClearTimerFires(t)
  \/ \E t \in Tasks : \E s \in Scopes : syncRepository(t, s)
  \/ \E t \in Tasks : SyncRepositoryComplete(t)
  \/ \E t \in Tasks : SyncRepositoryFails(t)
  \/ \E t \in Tasks : MessageClearTimerFires(t)
  \/ \E t \in Tasks : \E n \in PRNumbers : syncPullRequest(t, n)
  \/ \E t \in Tasks : \E tok \in Tokens : TokenArrives(t, tok)
  \/ \E t \in Tasks : TokenFails(t)
  \/ \E t \in Tasks : MockDataImported(t)
  \/ \E t \in Tasks : GitHubImported(t)
  \/ \E t \in Tasks : GetPullRequestResolves(t)
  \/ \E t \in Tasks : GetPullRequestRejects(t)
  \/ clearSyncErrors

Spec == Init /\ [][Next]_vars

\* The steps of the run in slot t after its call: the settling of its
\* remote calls and imports, and the synchronous blocks that follow them.
RunStep(t) ==
  \/ FetchRepositoriesResolves(t)
  \/ FetchRepositoriesRejects(t)
  \/ \E i \in 1..MaxTotal : FetchPullRequestsResolves(t, i)
  \/ \E i \in 1..MaxTotal : FetchPullRequestsRejects(t, i)
  \/ updateProgress(t)
  \/ SyncAllComplete(t)
  \/ SyncRepositoryComplete(t)
  \/ SyncRepositoryFails(t)
  \/ \E tok \in Tokens : TokenArrives(t, tok)
  \/ TokenFails(t)
  \/ MockDataImported(t)
  \/ GitHubImported(t)
  \/ GetPullRequestResolves(t)
  \/ GetPullRequestRejects(t)

\* The initial states with at most two recently viewed repos (liveness is
\* checked on these).
FairInit == Init /\ Len(recentlyViewedRepos) <= 2

\* Every remote call and import settles, and the event loop runs every
\* continuation that is ready.
FairSpec ==
  /\ FairInit
  /\ [][Next]_vars
  /\ \A t \in Tasks : WF_vars(RunStep(t))

(***************************************************************************)
(* Properties of the sync store.                                           *)
(***************************************************************************)
Running == {t \in Tasks : Active(t)}
SyncAllRunning(t) == task[t].kind = "syncAll" /\ Active(t)
ClearTimerKinds == {"clearAll", "clearRepository", "clearPR"}
ClearTimerPending(t) == \E k \in ClearTimerKinds : Timer(k, t) \in timers
IsPrefix(a, b) == Len(a) <= Len(b) /\ SubSeq(b, 1, Len(a)) = a
Entries(q) == {q[i] : i \in 1..Len(q)}
\* The call in slot t is made in this step.
Called(t) == task[t].pc = "init" /\ task'[t].pc # "init"
\* The run in slot t returns in this step.
Returned(t) == Active(t) /\ ~Active(t)'

\* C1: at most one sync session runs at a time (a call made while one is
\* running is rejected), and isSyncing is true as long as a started sync
\* has not finished.
C1_SingleSession ==
  /\ Cardinality(Running) <= 1
  /\ (Running # {} => isSyncing)

\* C2: an accepted syncAll sets isSyncing, and a syncAll call made while
\* isSyncing is true is rejected: it issues no fetch and leaves every field
\* of the sync state, every timer and every other run unchanged.
C2_SecondSyncAllIsNoOp ==
  [][\A t \in Tasks :
       /\ (Called(t) /\ task'[t].kind = "syncAll" /\ task'[t].pc # "rejected")
            => isSyncing'
       /\ (Called(t) /\ task'[t].kind = "syncAll" /\ isSyncing)
            => /\ task'[t] = RejectedTask("syncAll")
               /\ UNCHANGED <<syncVars, timers, cont>>
               /\ \A u \in Tasks \ {t} : task'[u] = task[u]]_vars

\* C2 witness: a syncAll call was rejected while a syncAll run is going on.
C2_Witness ==
  \E t, u \in Tasks :
    /\ SyncAllRunning(t)
    /\ task[u] = RejectedTask("syncAll")
    /\ isSyncing

\* The failed fetches of the batch of the run in slot t.
Failed(t) == {i \in 1..Len(task[t].fetch) : task[t].fetch[i] = "failed"}
\* Some entry of q names scope.
Names(q, scope) ==
  \E msg \in ErrorMessages : FailedToSync(scope, msg) \in Entries(q)

\* C3: partial-failure isolation in syncAll.  A run in its batch has issued
\* one fetch per scope; a fetch that fails appends exactly one entry naming
\* its scope and leaves the other fetches and the run as they are; from the
\* batch the run only goes on to batch completion ("Sync complete!"), never
\* to the failure branch.
C3_PartialFailureIsolation ==
  /\ [](\A t \in Tasks :
          task[t].pc \in {"batch", "settled"}
            => Len(task[t].fetch) = Len(task[t].repos))
  /\ [][\A t \in Tasks :
          /\ \A i \in 1..Len(task[t].fetch) :
               (task[t].pc = "batch" /\ task[t].fetch[i] = "pending"
                  /\ task'[t].pc = "batch" /\ task'[t].fetch[i] = "failed")
                 => /\ \E msg \in ErrorMessages :
                         syncErrors' =
                           Append(syncErrors, FailedToSync(task[t].repos[i], msg))
                    /\ \A j \in 1..Len(task[t].fetch) :
                         j # i => task'[t].fetch[j] = task[t].fetch[j]
          /\ task[t].pc = "batch" => task'[t].pc \in {"batch", "settled"}
          /\ (task[t].pc = "settled" /\ task'[t].pc # "settled")
               => /\ syncMessage' = "Sync complete!"
                  /\ lastSyncTime' = DateOf(t)
                  /\ ~isSyncing']_vars

\* C3 witness: of 3 scopes the 2nd fetch failed, the 1st and 3rd resolved,
\* the batch settled and the list names the failing scope.
C3_Witness ==
  \E t \in Tasks :
    /\ task[t].pc = "settled"
    /\ task[t].repos = <<"o/a", "o/b", "o/c">>
    /\ task[t].fetch = <<"ok", "failed", "ok">>
    /\ syncErrors = <<FailedToSync("o/b", "Network error")>>

\* C4: when k >= 1 fetches of the batch failed (and the list holds their k
\* entries when the batch settles), the list holds exactly these k entries
\* right after the run set isSyncing = false.
C4_ErrorsKeptAtCompletion ==
  [][\A t \in Tasks :
       (/\ task[t].pc = "settled"
        /\ task'[t].pc = "done"
        /\ Failed(t) # {}
        /\ Len(syncErrors) = Cardinality(Failed(t))
        /\ \A i \in Failed(t) : Names(syncErrors, task[t].repos[i]))
         => /\ Len(syncErrors') = Cardinality(Failed(t))
            /\ \A i \in Failed(t) : Names(syncErrors', task[t].repos[i])]_vars

\* C5: while a syncAll run goes on, syncProgress never decreases, and it is
\* at least 20 once the repository list was fetched.  Stated for a run that
\* no other sync operation overlaps.
C5_ProgressMonotone ==
  [][\A t \in Tasks :
       (SyncAllRunning(t) /\ SyncAllRunning(t)'
          /\ Running = {t} /\ Running' = {t})
         => /\ syncProgress' >= syncProgress
            /\ (task'[t].pc \in {"batch", "settled"}
                  => syncProgress' >= P(ReposProgress))]_vars

\* C6: while a fetch of the batch of a syncAll run is outstanding,
\* syncProgress is not 100: it is 20 + 80 * (completed / total), capped
\* below 100.
C6_No100BeforeSettled ==
  \A t \in Tasks :
    (task[t].pc = "batch" /\ \E i \in 1..Len(task[t].fetch) : task[t].fetch[i] = "pending")
      => /\ syncProgress # P(FullProgress)
         /\ syncProgress = BatchProgress(task[t].completed, Len(task[t].repos))

\* C7: a stale completion is ignored.  Stated for the deferred callback of
\* a run that has returned: when its auto-clear timer fires while a later
\* sync run is going on, syncMessage, syncProgress and isSyncing stay as
\* that run set them.
C7_StaleCompletionIgnored ==
  [][\A t \in Tasks :
       (/\ ClearTimerPending(t) /\ ~ClearTimerPending(t)'
        /\ \E u \in Tasks : u > t /\ Active(u) /\ Active(u)')
         => UNCHANGED <<syncMessage, syncProgress, isSyncing>>]_vars

\* C8: every accepted sync returns, and sets isSyncing = false when it
\* does, provided every remote call settles.
C8_ReturnsToIdle ==
  /\ \A t \in Tasks : Active(t) ~> ~Active(t)
  /\ [][\A t \in Tasks : Returned(t) => ~isSyncing']_vars

\* C8 witness: runs have returned, one of them through its catch block, and
\* the store is idle.
C8_Witness ==
  /\ \A t \in Tasks : task[t].pc = "done"
  /\ syncMessage = "Sync failed"
  /\ ~isSyncing

\* No run is going on and no auto-clear timer is pending: unless a new sync
\* is started, nothing will change syncMessage any more.
Quiescent ==
  /\ cont = 0
  /\ Running = {}
  /\ \A t \in Tasks : ~ClearTimerPending(t)

\* C9: after every outcome of a sync run the message is cleared in the end.
C9_MessageCleared == Quiescent => syncMessage = ""

\* C10 (as stated): an entry of syncErrors stays until clearSyncErrors is
\* called.
C10_ErrorsPersistUntilCleared ==
  [][clearSyncErrors \/ IsPrefix(syncErrors, syncErrors')]_vars

\* C10 (amended): an entry of syncErrors stays until clearSyncErrors is
\* called, a syncAll call is accepted, a syncAll run reaches its batch
\* completion, or a syncRepository run succeeds; each of these empties the
\* list, and no other step removes or reorders an entry.
C10_ErrorsPersistUntilReset ==
  [][\/ IsPrefix(syncErrors, syncErrors')
     \/ /\ syncErrors' = << >>
        /\ \/ clearSyncErrors
           \/ \E t \in Tasks :
                \/ Called(t) /\ task'[t].kind = "syncAll" /\ Active(t)'
                \/ task[t].pc = "settled" /\ Returned(t)
                \/ task[t].kind = "syncRepository" /\ Returned(t)
                     /\ syncMessage' = "Repository synced!"]_vars

\* C10 witness: the entry of a failed run is still in the list while a
\* later run goes on and after a later run returned.
C10_Witness ==
  /\ syncErrors = <<"Network error">>
  /\ task[1].pc = "done"
  /\ task[2].pc = "done"
  /\ syncMessage = "PR synced!"

(***************************************************************************)
(* Claims on the debounce timer, the scope list and the offline path.      *)
(***************************************************************************)
\* The pending debounce timers (setTimeout of line 60).
DebounceTimers == {x \in timers : x.kind = "debounce"}

C12_OneFetchPerDistinctScope ==
  \A t \in Tasks :
    task[t].pc \in {"batch", "settled"}
      => /\ Len(task[t].fetch) = Len(task[t].repos)
         /\ Entries(task[t].repos) =
              ({selectedRepo} \ {NoRepo}) \cup Entries(recentlyViewedRepos)
         /\ \A i, j \in 1..Len(task[t].repos) :
              task[t].repos[i] = task[t].repos[j] => i = j

\* The sync state right after a syncPullRequest run in slot t succeeded
\* (lines 240-248), the other fields being left as they were.
PRSynced(t) ==
  /\ ~isSyncing'
  /\ lastSyncTime' = DateOf(t)
  /\ syncMessage' = "PR synced!"
  /\ Timer("clearPR", t) \in timers'
  /\ UNCHANGED <<syncProgress, syncErrors, syncDebounceTimer>>

\* C13: a syncPullRequest run that got the credential "dev-token" makes no
\* remote call (it never is at the import of the API client nor at
\* api.getPullRequest), hands prStore at most the fixture record of the
\* number asked for, and ends in the same sync state as a run whose
\* api.getPullRequest resolved.
C13_OfflineSentinel ==
  [][\A t \in Tasks :
       /\ (task'[t].kind = "syncPullRequest" /\ task'[t].token = DevToken)
            => task'[t].pc = "importMockData"
       /\ (task[t].kind = "syncPullRequest" /\ task[t].token = DevToken
             /\ task'[t] # task[t])
            => /\ task'[t] = DoneTask
               /\ updatePR' \in {NoPR, MockPR(task[t].number)}
               /\ PRSynced(t)
       /\ (task[t].kind = "syncPullRequest" /\ task[t].pc = "getPullRequest"
             /\ task'[t] # task[t] /\ syncMessage' # "Sync failed")
            => /\ task'[t] = DoneTask
               /\ updatePR' = ApiPR(task[t].number)
               /\ PRSynced(t)]_vars

\* C13 witness: a run with the offline sentinel has just completed and
\* handed the fixture record of pull request 7 to prStore.
C13_Witness ==
  /\ updatePR = MockPR(7)
  /\ task[1] = DoneTask
  /\ ~isSyncing
  /\ lastSyncTime = DateOf(1)
  /\ syncMessage = "PR synced!"
  /\ syncErrors = << >>

(***************************************************************************)
(* Part 2: the issue store (src/src/renderer/stores/issueStore.ts).        *)
(*                                                                         *)
(* As in part 1, one action is one synchronous block: a call up to its     *)
(* first await, or the resumption after an await up to the next one.       *)
(***************************************************************************)
(***************************************************************************)
(* fetchIssues                                                             *)
(***************************************************************************)
\* A loading guard that lets every call through.
LoadingGuardAbsent == FALSE

\* Lines 65-69: `if (get().loading) return`.
LoadingGuard == loading

\* Lines 61-88: the two guards, the first `set`, and the await of the
\* credential.
fetchIssues(c, scope, force) ==
  /\ ICallable(c)
  /\ IF LoadingGuard \/ (scope \in loadedRepos /\ ~force)
       THEN /\ icall' = [icall EXCEPT ![c] =
                 IReturn([ICalled(c, "fetchIssues", scope) EXCEPT !.force = force],
                         "skipped")]
            /\ UNCHANGED <<issues, repoIssueCache, loadedRepos, loading, error>>
       ELSE /\ icall' = [icall EXCEPT ![c] =
                 [ICalled(c, "fetchIssues", scope) EXCEPT !.force = force,
                                                          !.pc = "getToken"]]
            /\ loading' = TRUE
            /\ error' = NoError
            /\ UNCHANGED <<issues, repoIssueCache, loadedRepos>>
  /\ UNCHANGED syncSide

\* A catch block that also empties the active index.
FetchIssuesCatchClears(c, msg) ==
  /\ error' = msg
  /\ loading' = FALSE
  /\ issues' = EmptyMap
  /\ icall' = [icall EXCEPT ![c] = IReturn(icall[c], "failed")]
  /\ UNCHANGED <<repoIssueCache, loadedRepos>>

\* Lines 121-126: the catch block of fetchIssues.
FetchIssuesCatch(c, msg) ==
  /\ error' = msg
  /\ loading' = FALSE
  /\ icall' = [icall EXCEPT ![c] = IReturn(icall[c], "failed")]
  /\ UNCHANGED <<issues, repoIssueCache, loadedRepos>>

\* Lines 91-102: the credential arrived.  Without one the call throws
\* "Not authenticated"; with the offline sentinel it waits 500 ms, otherwise
\* it calls api.getIssues.
FetchIssuesToken(c, token) ==
  /\ icall[c].op = "fetchIssues"
  /\ icall[c].pc = "getToken"
  /\ IF token = NoToken
       THEN FetchIssuesCatch(c, "Not authenticated")
       ELSE /\ icall' = [icall EXCEPT
                 ![c].pc = IF token = DevToken THEN "mockDelay" ELSE "getIssues",
                 ![c].remote = IF token = DevToken THEN 0 ELSE 1]
            /\ UNCHANGED <<issues, repoIssueCache, loadedRepos, loading, error>>
  /\ UNCHANGED syncSide

\* A success path that does not mark the scope as loaded.
FetchIssuesSuccessNotLoaded(c, payload) ==
  LET issueMap == IssueMapOf(icall[c].scope, payload) IN
  /\ issues' = issueMap
  /\ repoIssueCache' =
       [s \in DOMAIN repoIssueCache \cup {icall[c].scope} |->
          IF s = icall[c].scope THEN issueMap ELSE repoIssueCache[s]]
  /\ loading' = FALSE
  /\ icall' = [icall EXCEPT ![c] = IReturn(icall[c], "ok")]
  /\ UNCHANGED <<loadedRepos, error>>

\* Lines 104-120: the fetched Map replaces the active index and becomes the
\* archive entry of the scope; the scope is marked as loaded.
FetchIssuesSuccess(c, payload) ==
  LET issueMap == IssueMapOf(icall[c].scope, payload) IN
  /\ issues' = issueMap
  /\ repoIssueCache' =
       [s \in DOMAIN repoIssueCache \cup {icall[c].scope} |->
          IF s = icall[c].scope THEN issueMap ELSE repoIssueCache[s]]
  /\ loading' = FALSE
  /\ loadedRepos' = loadedRepos \cup {icall[c].scope}
  /\ icall' = [icall EXCEPT ![c] = IReturn(icall[c], "ok")]
  /\ UNCHANGED error

\* Lines 97-98: the 500 ms of the offline path are over.
FetchIssuesMock(c) ==
  /\ icall[c].op = "fetchIssues"
  /\ icall[c].pc = "mockDelay"
  /\ FetchIssuesSuccess(c, mockIssues)
  /\ UNCHANGED syncSide

\* Line 101: api.getIssues resolved.
FetchIssuesResolves(c, payload) ==
  /\ icall[c].op = "fetchIssues"
  /\ icall[c].pc = "getIssues"
  /\ FetchIssuesSuccess(c, payload)
  /\ UNCHANGED syncSide

\* auth.getToken() or api.getIssues rejected.
FetchIssuesRejects(c) ==
  /\ icall[c].op = "fetchIssues"
  /\ icall[c].pc \in {"getToken", "getIssues"}
  /\ \E msg \in ErrorMessages : FetchIssuesCatch(c, msg)
  /\ UNCHANGED syncSide

(***************************************************************************)
(* updateIssue                                                             *)
(***************************************************************************)
\* The records passed to updateIssue: of any scope or with no repository,
\* with or without the two augmentation fields.
UpdateArgs ==
  { [ repository      |-> s,
      number          |-> n,
      state           |-> st,
      labels          |-> << >>,
      linkedPRs       |-> l,
      isUpdatingLinks |-> u ] :
      s \in IssueScopes \cup {NoRepo}, n \in {1}, st \in {"closed"},
      l \in {Undefined, Def(<< >>), Def(<<101>>)},
      u \in {Undefined, Def(FALSE)} }

\* A merge that takes the two augmentation fields from the argument alone.
updatedIssueClears(issue, existing) ==
  [ issue EXCEPT
      !.linkedPRs = Coalesce(issue.linkedPRs, Def(<< >>)),
      !.isUpdatingLinks = Coalesce(issue.isUpdatingLinks, Def(FALSE)) ]

\* Lines 225-229: the record that is stored.
updatedIssue(issue, existing) ==
  [ issue EXCEPT
      !.linkedPRs =
         Coalesce(issue.linkedPRs,
           Coalesce(IF existing = Undefined THEN Undefined
                    ELSE existing[1].linkedPRs, Def(<< >>))),
      !.isUpdatingLinks =
         Coalesce(issue.isUpdatingLinks,
           Coalesce(IF existing = Undefined THEN Undefined
                    ELSE existing[1].isUpdatingLinks, Def(FALSE))) ]

\* m.get(k): the record, or undefined.
MapGet(m, k) == IF k \in DOMAIN m THEN Def(m[k]) ELSE Undefined

\* An updateIssue that writes the active index only.
updateIssueActiveOnly(c, issue) ==
  /\ ICallable(c)
  /\ icall' = [icall EXCEPT ![c] =
       IReturn(ICalled(c, "updateIssue", issue.repository),
               IF issue.repository = NoRepo THEN "skipped" ELSE "ok")]
  /\ IF issue.repository = NoRepo
       THEN UNCHANGED <<issues, repoIssueCache>>
       ELSE LET key == IssueKey(issue.repository, issue.number)
                rec == updatedIssue(issue, MapGet(issues, key))
            IN /\ issues' = MapSet(issues, key, rec)
               /\ UNCHANGED repoIssueCache
  /\ UNCHANGED <<loadedRepos, loading, error>>
  /\ UNCHANGED syncSide

\* Lines 208-243: updateIssue is synchronous.  A record with no repository
\* is dropped; otherwise the merged record is written under its key to the
\* active index and to the archive entry of its scope (created if missing)
\* in one `set`.
updateIssue(c, issue) ==
  /\ ICallable(c)
  /\ icall' = [icall EXCEPT ![c] =
       IReturn(ICalled(c, "updateIssue", issue.repository),
               IF issue.repository = NoRepo THEN "skipped" ELSE "ok")]
  /\ IF issue.repository = NoRepo
       THEN UNCHANGED <<issues, repoIssueCache>>
       ELSE LET key == IssueKey(issue.repository, issue.number)
                repoKey == issue.repository
                rec == updatedIssue(issue, MapGet(issues, key))
                repoIssues == IF repoKey \in DOMAIN repoIssueCache
                                THEN repoIssueCache[repoKey] ELSE EmptyMap
            IN /\ issues' = MapSet(issues, key, rec)
               /\ repoIssueCache' =
                    [s \in DOMAIN repoIssueCache \cup {repoKey} |->
                       IF s = repoKey THEN MapSet(repoIssues, key, rec)
                                      ELSE repoIssueCache[s]]
  /\ UNCHANGED <<loadedRepos, loading, error>>
  /\ UNCHANGED syncSide

(***************************************************************************)
(* closeIssues                                                             *)
(***************************************************************************)
\* Lines 289-300: closeIssues awaits the credential first.
closeIssues(c, scope, numbers) ==
  /\ ICallable(c)
  /\ icall' = [icall EXCEPT ![c] =
       [ICalled(c, "closeIssues", scope) EXCEPT !.nums = numbers,
                                                !.pc = "getToken"]]
  /\ UNCHANGED <<issues, repoIssueCache, loadedRepos, loading, error>>
  /\ UNCHANGED syncSide

\* Lines 330-332: the catch block of closeIssues.
CloseIssuesCatch(c, msg) ==
  /\ error' = msg
  /\ icall' = [icall EXCEPT ![c] = IReturn(icall[c], "failed")]
  /\ UNCHANGED <<issues, repoIssueCache, loadedRepos, loading>>

\* Lines 300-304, 315-319: the credential arrived.
CloseIssuesToken(c, token) ==
  /\ icall[c].op = "closeIssues"
  /\ icall[c].pc = "getToken"
  /\ IF token = NoToken
       THEN CloseIssuesCatch(c, "Not authenticated")
       ELSE /\ icall' = [icall EXCEPT
                 ![c].pc = IF token = DevToken THEN "mockDelay" ELSE "closeIssue",
                 ![c].remote = IF token = DevToken THEN 0
                               ELSE Cardinality(icall[c].nums)]
            /\ UNCHANGED <<issues, repoIssueCache, loadedRepos, loading, error>>
  /\ UNCHANGED syncSide

\* Lines 304-314: the offline path marks the records it finds as closed.
CloseIssuesMock(c) ==
  /\ icall[c].op = "closeIssues"
  /\ icall[c].pc = "mockDelay"
  /\ issues' =
       [k \in DOMAIN issues |->
          IF k \in {IssueKey(icall[c].scope, n) : n \in icall[c].nums}
            THEN [issues[k] EXCEPT !.state = "closed"]
            ELSE issues[k]]
  /\ icall' = [icall EXCEPT ![c] = IReturn(icall[c], "ok")]
  /\ UNCHANGED <<repoIssueCache, loadedRepos, loading, error>>
  /\ UNCHANGED syncSide

\* Lines 316-327: every api.closeIssue resolved; the records of the answer
\* replace the records of the active index.
CloseIssuesResolves(c) ==
  /\ icall[c].op = "closeIssues"
  /\ icall[c].pc = "closeIssue"
  /\ LET closed == {IssueKey(icall[c].scope, n) : n \in icall[c].nums} IN
     issues' =
       [k \in DOMAIN issues \cup closed |->
          IF k \in closed
            THEN ApiIssue(icall[c].scope,
                          CHOOSE n \in icall[c].nums :
                            IssueKey(icall[c].scope, n) = k,
                          "closed")
            ELSE issues[k]]
  /\ icall' = [icall EXCEPT ![c] = IReturn(icall[c], "ok")]
  /\ UNCHANGED <<repoIssueCache, loadedRepos, loading, error>>
  /\ UNCHANGED syncSide

\* auth.getToken() or one of the api.closeIssue calls rejected.
CloseIssuesRejects(c) ==
  /\ icall[c].op = "closeIssues"
  /\ icall[c].pc \in {"getToken", "closeIssue"}
  /\ \E msg \in ErrorMessages : CloseIssuesCatch(c, msg)
  /\ UNCHANGED syncSide

RECURSIVE NotIn(_, _)
\* new.filter(pr => !existingNumbers.has(pr.number)) (lines 693-695),
\* labels.filter(l => !existingLabels.has(l)) (line 472)
NotIn(new, existing) ==
  IF new = << >> THEN << >>
  ELSE IF \E i \in 1..Len(existing) : existing[i] = Head(new)
         THEN NotIn(Tail(new), existing)
         ELSE <<Head(new)>> \o NotIn(Tail(new), existing)

(***************************************************************************)
(* reopenIssues                                                            *)
(***************************************************************************)
\* Lines 336-347: reopenIssues awaits the credential first.
reopenIssues(c, scope, numbers) ==
  /\ ICallable(c)
  /\ icall' = [icall EXCEPT ![c] =
       [ICalled(c, "reopenIssues", scope) EXCEPT !.nums = numbers,
                                                 !.pc = "getToken"]]
  /\ UNCHANGED <<issues, repoIssueCache, loadedRepos, loading, error>>
  /\ UNCHANGED syncSide

\* Lines 378-380: the catch block of reopenIssues.
ReopenIssuesCatch(c, msg) ==
  /\ error' = msg
  /\ icall' = [icall EXCEPT ![c] = IReturn(icall[c], "failed")]
  /\ UNCHANGED <<issues, repoIssueCache, loadedRepos, loading>>

\* Lines 347-351, 362-366: the credential arrived.
ReopenIssuesToken(c, token) ==
  /\ icall[c].op = "reopenIssues"
  /\ icall[c].pc = "getToken"
  /\ IF token = NoToken
       THEN ReopenIssuesCatch(c, "Not authenticated")
       ELSE /\ icall' = [icall EXCEPT
                 ![c].pc = IF token = DevToken THEN "mockDelay" ELSE "reopenIssue",
                 ![c].remote = IF token = DevToken THEN 0
                               ELSE Cardinality(icall[c].nums)]
            /\ UNCHANGED <<issues, repoIssueCache, loadedRepos, loading, error>>
  /\ UNCHANGED syncSide

\* Lines 351-361: the offline path marks the records it finds as open.
ReopenIssuesMock(c) ==
  /\ icall[c].op = "reopenIssues"
  /\ icall[c].pc = "mockDelay"
  /\ issues' =
       [k \in DOMAIN issues |->
          IF k \in {IssueKey(icall[c].scope, n) : n \in icall[c].nums}
            THEN [issues[k] EXCEPT !.state = "open"]
            ELSE issues[k]]
  /\ icall' = [icall EXCEPT ![c] = IReturn(icall[c], "ok")]
  /\ UNCHANGED <<repoIssueCache, loadedRepos, loading, error>>
  /\ UNCHANGED syncSide

\* Lines 363-374: every api.reopenIssue resolved; the records of the answer
\* replace the records of the active index in one `set`.
ReopenIssuesResolves(c) ==
  /\ icall[c].op = "reopenIssues"
  /\ icall[c].pc = "reopenIssue"
  /\ LET opened == {IssueKey(icall[c].scope, n) : n \in icall[c].nums} IN
     issues' =
       [k \in DOMAIN issues \cup opened |->
          IF k \in opened
            THEN ApiIssue(icall[c].scope,
                          CHOOSE n \in icall[c].nums :
                            IssueKey(icall[c].scope, n) = k,
                          "open")
            ELSE issues[k]]
  /\ icall' = [icall EXCEPT ![c] = IReturn(icall[c], "ok")]
  /\ UNCHANGED <<repoIssueCache, loadedRepos, loading, error>>
  /\ UNCHANGED syncSide

\* auth.getToken() or one of the api.reopenIssue calls rejected.
ReopenIssuesRejects(c) ==
  /\ icall[c].op = "reopenIssues"
  /\ icall[c].pc \in {"getToken", "reopenIssue"}
  /\ \E msg \in ErrorMessages : ReopenIssuesCatch(c, msg)
  /\ UNCHANGED syncSide

(***************************************************************************)
(* addLabelsToIssues                                                       *)
(*                                                                         *)
(* With a real credential the calls api.addIssueLabels are issued for all  *)
(* the numbers at once, and the continuation of each writes the record of  *)
(* its number when its call resolves.  Promise.all settles when all have   *)
(* resolved or when the first rejects; the calls still outstanding then go *)
(* on, so the slot keeps their numbers after the operation returned.       *)
(***************************************************************************)
\* The label names passed to addLabelsToIssues, and the label lists that
\* api.addIssueLabels answers with.
LabelArgs == {<<"bug">>}
LabelLists == {<<"bug">>, <<"bug", "help wanted">>}

\* Lines 449-460: addLabelsToIssues awaits the credential first.
addLabelsToIssues(c, scope, numbers, labels) ==
  /\ ICallable(c)
  /\ icall' = [icall EXCEPT ![c] =
       [ICalled(c, "addLabelsToIssues", scope) EXCEPT !.nums = numbers,
                                                      !.labels = labels,
                                                      !.pc = "getToken"]]
  /\ UNCHANGED <<issues, repoIssueCache, loadedRepos, loading, error>>
  /\ UNCHANGED syncSide

\* The slot of an addLabelsToIssues call that has returned while the calls
\* for `numbers` are outstanding.
AddLabelsReturn(r, numbers) ==
  IF numbers = {} THEN IReturn(r, "ok")
  ELSE [IFresh EXCEPT !.op = r.op, !.pc = "done", !.scope = r.scope,
                      !.nums = numbers]

\* Lines 502-504: the catch block of addLabelsToIssues.
AddLabelsCatch(c, msg, numbers) ==
  /\ error' = msg
  /\ icall' = [icall EXCEPT ![c] = AddLabelsReturn(icall[c], numbers)]
  /\ UNCHANGED <<issues, repoIssueCache, loadedRepos, loading>>

\* Lines 460-464, 485-489: the credential arrived.
AddLabelsToken(c, token) ==
  /\ icall[c].op = "addLabelsToIssues"
  /\ icall[c].pc = "getToken"
  /\ IF token = NoToken
       THEN AddLabelsCatch(c, "Not authenticated", {})
       ELSE /\ icall' = [icall EXCEPT
                 ![c].pc = IF token = DevToken THEN "mockDelay"
                           ELSE "addIssueLabels",
                 ![c].remote = IF token = DevToken THEN 0
                               ELSE Cardinality(icall[c].nums)]
            /\ UNCHANGED <<issues, repoIssueCache, loadedRepos, loading, error>>
  /\ UNCHANGED syncSide

\* auth.getToken() rejected.
AddLabelsTokenRejects(c) ==
  /\ icall[c].op = "addLabelsToIssues"
  /\ icall[c].pc = "getToken"
  /\ \E msg \in ErrorMessages : AddLabelsCatch(c, msg, {})
  /\ UNCHANGED syncSide

\* Lines 462-484: the offline path adds the missing labels to every record
\* it finds, in one `set`.
AddLabelsMock(c) ==
  /\ icall[c].op = "addLabelsToIssues"
  /\ icall[c].pc = "mockDelay"
  /\ issues' =
       [k \in DOMAIN issues |->
          IF k \in {IssueKey(icall[c].scope, n) : n \in icall[c].nums}
            THEN [issues[k] EXCEPT
                    !.labels = @ \o NotIn(icall[c].labels, @)]
            ELSE issues[k]]
  /\ icall' = [icall EXCEPT ![c] = IReturn(icall[c], "ok")]
  /\ UNCHANGED <<repoIssueCache, loadedRepos, loading, error>>
  /\ UNCHANGED syncSide

\* Lines 488-499: api.addIssueLabels for `number` resolved; its continuation
\* writes the labels of that record.  When it was the last one outstanding
\* of an operation that has not failed, Promise.all resolves.
AddLabelsResolves(c, number, updatedLabels) ==
  /\ icall[c].op = "addLabelsToIssues"
  /\ icall[c].pc \in {"addIssueLabels", "done"}
  /\ number \in icall[c].nums
  /\ LET key == IssueKey(icall[c].scope, number) IN
     issues' = IF key \in DOMAIN issues
                 THEN [issues EXCEPT ![key].labels = updatedLabels]
                 ELSE issues
  /\ icall' = [icall EXCEPT ![c] =
       IF icall[c].nums = {number} THEN IReturn(icall[c], "ok")
       ELSE [icall[c] EXCEPT !.nums = @ \ {number}]]
  /\ UNCHANGED <<repoIssueCache, loadedRepos, loading, error>>
  /\ UNCHANGED syncSide

\* api.addIssueLabels for `number` rejected.  The first rejection rejects
\* Promise.all and runs the catch block; a later one is dropped.
AddLabelsRejects(c, number) ==
  /\ icall[c].op = "addLabelsToIssues"
  /\ icall[c].pc \in {"addIssueLabels", "done"}
  /\ number \in icall[c].nums
  /\ IF icall[c].pc = "addIssueLabels"
       THEN \E msg \in ErrorMessages :
              AddLabelsCatch(c, msg, icall[c].nums \ {number})
       ELSE /\ icall' = [icall EXCEPT ![c] =
                 AddLabelsReturn(icall[c], icall[c].nums \ {number})]
            /\ UNCHANGED <<issues, repoIssueCache, loadedRepos, loading, error>>
  /\ UNCHANGED syncSide

(***************************************************************************)
(* linkPRsToIssue / unlinkPRFromIssue                                      *)
(***************************************************************************)
\* { ...record, isUpdatingLinks: flag } under key, if the key is there.
SetUpdating(m, key, flag) ==
  IF key \in DOMAIN m
    THEN [m EXCEPT ![key].isUpdatingLinks = Def(flag)]
    ELSE m

\* Lines 616-638 and 732-750: the record is looked up (no record: return),
\* its isUpdatingLinks is set, and the credential is awaited.
LinkCall(c, op, scope, number, prs) ==
  /\ ICallable(c)
  /\ LET key == IssueKey(scope, number) IN
     IF key \notin DOMAIN issues
       THEN /\ icall' = [icall EXCEPT ![c] =
                 IReturn([ICalled(c, op, scope) EXCEPT !.number = number,
                                                       !.prs = prs],
                         "skipped")]
            /\ UNCHANGED issues
       ELSE /\ icall' = [icall EXCEPT ![c] =
                 [ICalled(c, op, scope) EXCEPT !.number = number,
                                               !.prs = prs,
                                               !.issue = Def(issues[key]),
                                               !.pc = "getToken"]]
            /\ issues' = [issues EXCEPT ![key] =
                             [issues[key] EXCEPT !.isUpdatingLinks = Def(TRUE)]]
  /\ UNCHANGED <<repoIssueCache, loadedRepos, loading, error>>
  /\ UNCHANGED syncSide

linkPRsToIssue(c, scope, number, prNumbers) ==
  LinkCall(c, "linkPRsToIssue", scope, number, prNumbers)

unlinkPRFromIssue(c, scope, number, prNumber) ==
  LinkCall(c, "unlinkPRFromIssue", scope, number, <<prNumber>>)

\* A catch block that stores the message and leaves the flag set.
LinkCatchKeepsFlag(c, msg) ==
  /\ error' = msg
  /\ icall' = [icall EXCEPT ![c] = IReturn(icall[c], "thrown")]
  /\ UNCHANGED <<issues, repoIssueCache, loadedRepos, loading>>

\* Lines 710-725 and 785-800: the catch block; the flag of the record now
\* under the key is cleared, the message is stored, the error is rethrown.
LinkCatch(c, msg) ==
  /\ issues' = SetUpdating(issues, IssueKey(icall[c].scope, icall[c].number),
                           FALSE)
  /\ error' = msg
  /\ icall' = [icall EXCEPT ![c] = IReturn(icall[c], "thrown")]
  /\ UNCHANGED <<repoIssueCache, loadedRepos, loading>>

\* Lines 640-653 and 755-765: the credential arrived.  Without one the call
\* throws; with a real one the first remote call is made; with the offline
\* sentinel it waits 500 ms.
LinkToken(c, token) ==
  /\ icall[c].op \in {"linkPRsToIssue", "unlinkPRFromIssue"}
  /\ icall[c].pc = "getToken"
  /\ IF token = NoToken
       THEN LinkCatch(c, "Not authenticated")
       ELSE /\ icall' = [icall EXCEPT
                 ![c].pc = IF token = DevToken THEN "mockDelay" ELSE "remote",
                 ![c].remote = IF token = DevToken THEN 0 ELSE 1]
            /\ UNCHANGED <<issues, repoIssueCache, loadedRepos, loading, error>>
  /\ UNCHANGED syncSide

RECURSIVE Without(_, _)
\* list.filter(pr => pr.number !== prNumber) (line 771)
Without(list, prNumber) ==
  IF list = << >> THEN << >>
  ELSE IF Head(list) = prNumber THEN Without(Tail(list), prNumber)
       ELSE <<Head(list)>> \o Without(Tail(list), prNumber)

\* currentIssue.linkedPRs || []
ListOf(field) == IF field = Undefined THEN << >> ELSE field[1]

\* Lines 688-708 and 767-783: the last `set` of the try block.  The record
\* now under the key (if any) gets the new list and a cleared flag.
LinkStore(c) ==
  LET key == IssueKey(icall[c].scope, icall[c].number) IN
  /\ issues' =
       IF key \in DOMAIN issues
         THEN LET existingPRs == ListOf(issues[key].linkedPRs)
                  updatedLinkedPRs ==
                    IF icall[c].op = "linkPRsToIssue"
                      THEN existingPRs \o NotIn(icall[c].prs, existingPRs)
                      ELSE Without(existingPRs, icall[c].prs[1])
              IN [issues EXCEPT ![key].linkedPRs = Def(updatedLinkedPRs),
                                ![key].isUpdatingLinks = Def(FALSE)]
         ELSE issues
  /\ icall' = [icall EXCEPT ![c] = IReturn(icall[c], "ok")]
  /\ UNCHANGED <<repoIssueCache, loadedRepos, loading, error>>

\* Lines 651-652 and 762-763: the 500 ms of the offline path are over.
LinkMock(c) ==
  /\ icall[c].op \in {"linkPRsToIssue", "unlinkPRFromIssue"}
  /\ icall[c].pc = "mockDelay"
  /\ LinkStore(c)
  /\ UNCHANGED syncSide

\* A linkPRsToIssue that stores each pull request as soon as its remote
\* call resolved.
LinkResolvesStoresEach(c) ==
  /\ icall[c].op \in {"linkPRsToIssue", "unlinkPRFromIssue"}
  /\ icall[c].pc = "remote"
  /\ IF icall[c].remote < Len(icall[c].prs)
       THEN LET key == IssueKey(icall[c].scope, icall[c].number)
                pr == <<icall[c].prs[icall[c].remote]>>
            IN /\ icall' = [icall EXCEPT ![c].remote = @ + 1]
               /\ issues' =
                    IF key \in DOMAIN issues
                      THEN [issues EXCEPT ![key].linkedPRs =
                             Def(ListOf(@) \o NotIn(pr, ListOf(@)))]
                      ELSE issues
               /\ UNCHANGED <<repoIssueCache, loadedRepos, loading, error>>
       ELSE LinkStore(c)
  /\ UNCHANGED syncSide

\* Lines 645-647 and 759: a remote call resolved.  linkPRsToIssue makes one
\* call per pull request, one after the other.
LinkResolves(c) ==
  /\ icall[c].op \in {"linkPRsToIssue", "unlinkPRFromIssue"}
  /\ icall[c].pc = "remote"
  /\ IF icall[c].remote < Len(icall[c].prs)
       THEN /\ icall' = [icall EXCEPT ![c].remote = @ + 1]
            /\ UNCHANGED <<issues, repoIssueCache, loadedRepos, loading, error>>
       ELSE LinkStore(c)
  /\ UNCHANGED syncSide

\* auth.getToken() or a remote call rejected.
LinkRejects(c) ==
  /\ icall[c].op \in {"linkPRsToIssue", "unlinkPRFromIssue"}
  /\ icall[c].pc \in {"getToken", "remote"}
  /\ \E msg \in ErrorMessages : LinkCatch(c, msg)
  /\ UNCHANGED syncSide

(***************************************************************************)
(* refreshIssueLinks                                                       *)
(***************************************************************************)
\* The lists of linked pull requests that the pull-request cache or the
\* remote API can give for an issue.
LinkLists == { << >>, <<101>> }

\* Lines 821-846: the list of the offline path.
mockLinkedPRs == <<101, 102>>

\* { ...record, linkedPRs: list } under key, if the key is there.
SetLinkedPRs(m, key, list) ==
  IF key \in DOMAIN m THEN [m EXCEPT ![key].linkedPRs = Def(list)] ELSE m

\* Lines 804-818: refreshIssueLinks awaits the credential first.
refreshIssueLinks(c, scope, number, forceAPI) ==
  /\ ICallable(c)
  /\ icall' = [icall EXCEPT ![c] =
       [ICalled(c, "refreshIssueLinks", scope) EXCEPT !.number = number,
                                                      !.force = forceAPI,
                                                      !.pc = "getToken"]]
  /\ UNCHANGED <<issues, repoIssueCache, loadedRepos, loading, error>>
  /\ UNCHANGED syncSide

\* Lines 905-907: the catch block of refreshIssueLinks.
RefreshCatch(c, msg) ==
  /\ error' = msg
  /\ icall' = [icall EXCEPT ![c] = IReturn(icall[c], "failed")]
  /\ UNCHANGED <<issues, repoIssueCache, loadedRepos, loading>>

\* A refreshIssueLinks that asks the remote API whenever the credential is
\* a real one.
RefreshTokenAlwaysRemote(c, token) ==
  /\ icall[c].op = "refreshIssueLinks"
  /\ icall[c].pc = "getToken"
  /\ LET key == IssueKey(icall[c].scope, icall[c].number) IN
     CASE token = NoToken -> RefreshCatch(c, "Not authenticated")
       [] token = DevToken ->
            /\ issues' = SetLinkedPRs(issues, key, mockLinkedPRs)
            /\ icall' = [icall EXCEPT ![c] =
                           IReturn(icall[c], "ok")]
            /\ UNCHANGED <<repoIssueCache, loadedRepos, loading, error>>
       [] token = RealToken ->
            /\ icall' = [icall EXCEPT ![c].pc = "getIssueDevelopment",
                                      ![c].remote = 1]
            /\ UNCHANGED <<issues, repoIssueCache, loadedRepos, loading, error>>
  /\ UNCHANGED syncSide

\* Lines 818-888: the credential arrived.  Without one the call throws;
\* with the offline sentinel the fixture list is stored; with a real one
\* the list comes from the pull-request cache, unless forceAPI asks for
\* api.getIssueDevelopment.
RefreshToken(c, token) ==
  /\ icall[c].op = "refreshIssueLinks"
  /\ icall[c].pc = "getToken"
  /\ LET key == IssueKey(icall[c].scope, icall[c].number) IN
     CASE token = NoToken -> RefreshCatch(c, "Not authenticated")
       [] token = DevToken ->
            /\ issues' = SetLinkedPRs(issues, key, mockLinkedPRs)
            /\ icall' = [icall EXCEPT ![c] =
                           IReturn(icall[c], "ok")]
            /\ UNCHANGED <<repoIssueCache, loadedRepos, loading, error>>
       [] token = RealToken /\ ~icall[c].force ->
            \E linkedPRs \in LinkLists :
              /\ issues' = SetLinkedPRs(issues, key, linkedPRs)
              /\ icall' = [icall EXCEPT ![c] =
                             IReturn(icall[c], "ok")]
              /\ UNCHANGED <<repoIssueCache, loadedRepos, loading, error>>
       [] token = RealToken /\ icall[c].force ->
            /\ icall' = [icall EXCEPT ![c].pc = "getIssueDevelopment",
                                      ![c].remote = 1]
            /\ UNCHANGED <<issues, repoIssueCache, loadedRepos, loading, error>>
  /\ UNCHANGED syncSide

\* A continuation that adds the answer to the list already stored.
RefreshResolvesMerges(c, pullRequests) ==
  /\ icall[c].op = "refreshIssueLinks"
  /\ icall[c].pc = "getIssueDevelopment"
  /\ LET key == IssueKey(icall[c].scope, icall[c].number) IN
       issues' = IF key \in DOMAIN issues
                   THEN SetLinkedPRs(issues, key,
                          ListOf(issues[key].linkedPRs)
                            \o NotIn(pullRequests, ListOf(issues[key].linkedPRs)))
                   ELSE issues
  /\ icall' = [icall EXCEPT ![c] = IReturn(icall[c], "ok")]
  /\ UNCHANGED <<repoIssueCache, loadedRepos, loading, error>>
  /\ UNCHANGED syncSide

\* Lines 888-903: api.getIssueDevelopment resolved.
RefreshResolves(c, pullRequests) ==
  /\ icall[c].op = "refreshIssueLinks"
  /\ icall[c].pc = "getIssueDevelopment"
  /\ issues' = SetLinkedPRs(issues, IssueKey(icall[c].scope, icall[c].number),
                            pullRequests)
  /\ icall' = [icall EXCEPT ![c] = IReturn(icall[c], "ok")]
  /\ UNCHANGED <<repoIssueCache, loadedRepos, loading, error>>
  /\ UNCHANGED syncSide

\* auth.getToken() or api.getIssueDevelopment rejected.
RefreshRejects(c) ==
  /\ icall[c].op = "refreshIssueLinks"
  /\ icall[c].pc \in {"getToken", "getIssueDevelopment"}
  /\ \E msg \in ErrorMessages : RefreshCatch(c, msg)
  /\ UNCHANGED syncSide

(***************************************************************************)
(* The issue store as a whole.                                             *)
(***************************************************************************)
\* The arguments of the calls: the issue numbers of a bulk operation, the
\* issue whose links are changed or refreshed, the pull requests to link.
BulkArgs == {{1}, {1, 2}}
LinkedIssues == {1}
LinkArgs == {<<101>>, <<101, 102>>}

IssueNext ==
  \/ \E c \in ICalls, s \in IssueScopes, f \in BOOLEAN : fetchIssues(c, s, f)
  \/ \E c \in ICalls, tok \in Tokens : FetchIssuesToken(c, tok)
  \/ \E c \in ICalls : FetchIssuesMock(c)
  \/ \E c \in ICalls, p \in Payloads : FetchIssuesResolves(c, p)
  \/ \E c \in ICalls : FetchIssuesRejects(c)
  \/ \E c \in ICalls, i \in UpdateArgs : updateIssue(c, i)
  \/ \E c \in ICalls, s \in IssueScopes, ns \in BulkArgs : closeIssues(c, s, ns)
  \/ \E c \in ICalls, tok \in Tokens : CloseIssuesToken(c, tok)
  \/ \E c \in ICalls : CloseIssuesMock(c)
  \/ \E c \in ICalls : CloseIssuesResolves(c)
  \/ \E c \in ICalls : CloseIssuesRejects(c)
  \/ \E c \in ICalls, s \in IssueScopes, n \in LinkedIssues, prs \in LinkArgs :
       linkPRsToIssue(c, s, n, prs)
  \/ \E c \in ICalls, s \in IssueScopes, n \in LinkedIssues :
       unlinkPRFromIssue(c, s, n, 101)
  \/ \E c \in ICalls, tok \in Tokens : LinkToken(c, tok)
  \/ \E c \in ICalls : LinkMock(c)
  \/ \E c \in ICalls : LinkResolves(c)
  \/ \E c \in ICalls : LinkRejects(c)
  \/ \E c \in ICalls, s \in IssueScopes, n \in LinkedIssues, f \in BOOLEAN :
       refreshIssueLinks(c, s, n, f)
  \/ \E c \in ICalls, tok \in Tokens : RefreshToken(c, tok)
  \/ \E c \in ICalls, prs \in LinkLists : RefreshResolves(c, prs)
  \/ \E c \in ICalls : RefreshRejects(c)

\* The issue store on its own: the sync store stays in its initial state.
IssueInit ==
  /\ Init
  /\ selectedRepo = NoRepo
  /\ recentlyViewedRepos = << >>

IssueSpec == IssueInit /\ [][IssueNext]_vars

(***************************************************************************)
(* The calls that need a credential, in both stores.  The two stores share *)
(* no state, so a run of AuthSpec exercises one of them: the issue store,  *)
(* or syncPullRequest of the sync store.                                   *)
(***************************************************************************)
SyncIdle == \A t \in Tasks : task[t].pc = "init"
IssueIdle == \A c \in ISlots : icall[c].pc = "init"

SyncPullRequestNext ==
  \/ \E t \in Tasks, n \in PRNumbers : syncPullRequest(t, n)
  \/ \E t \in Tasks, tok \in Tokens : TokenArrives(t, tok)
  \/ \E t \in Tasks : TokenFails(t)
  \/ \E t \in Tasks : MockDataImported(t)
  \/ \E t \in Tasks : GitHubImported(t)
  \/ \E t \in Tasks : GetPullRequestResolves(t)
  \/ \E t \in Tasks : GetPullRequestRejects(t)
  \/ \E t \in Tasks : MessageClearTimerFires(t)

AuthNext ==
  \/ SyncIdle /\ IssueNext
  \/ IssueIdle /\ SyncPullRequestNext

AuthSpec == IssueInit /\ [][AuthNext]_vars

(***************************************************************************)
(* The bulk operations: fetchIssues fills the active index; closeIssues,   *)
(* reopenIssues and addLabelsToIssues change several of its records.       *)
(***************************************************************************)
BulkNext ==
  \/ \E c \in ICalls, s \in IssueScopes : fetchIssues(c, s, FALSE)
  \/ \E c \in ICalls, tok \in Tokens : FetchIssuesToken(c, tok)
  \/ \E c \in ICalls : FetchIssuesMock(c)
  \/ \E c \in ICalls, p \in Payloads : FetchIssuesResolves(c, p)
  \/ \E c \in ICalls : FetchIssuesRejects(c)
  \/ \E c \in ICalls, s \in IssueScopes, ns \in BulkArgs : closeIssues(c, s, ns)
  \/ \E c \in ICalls, tok \in Tokens : CloseIssuesToken(c, tok)
  \/ \E c \in ICalls : CloseIssuesMock(c)
  \/ \E c \in ICalls : CloseIssuesResolves(c)
  \/ \E c \in ICalls : CloseIssuesRejects(c)
  \/ \E c \in ICalls, s \in IssueScopes, ns \in BulkArgs : reopenIssues(c, s, ns)
  \/ \E c \in ICalls, tok \in Tokens : ReopenIssuesToken(c, tok)
  \/ \E c \in ICalls : ReopenIssuesMock(c)
  \/ \E c \in ICalls : ReopenIssuesResolves(c)
  \/ \E c \in ICalls : ReopenIssuesRejects(c)
  \/ \E c \in ICalls, s \in IssueScopes, ns \in BulkArgs, ls \in LabelArgs :
       addLabelsToIssues(c, s, ns, ls)
  \/ \E c \in ICalls, tok \in Tokens : AddLabelsToken(c, tok)
  \/ \E c \in ICalls : AddLabelsTokenRejects(c)
  \/ \E c \in ICalls : AddLabelsMock(c)
  \/ \E c \in ICalls, n \in IssueNumbers, ls \in LabelLists :
       AddLabelsResolves(c, n, ls)
  \/ \E c \in ICalls, n \in IssueNumbers : AddLabelsRejects(c, n)

BulkSpec == IssueInit /\ [][BulkNext]_vars

(***************************************************************************)
(* fetchIssues alone: MaxFetchCalls calls, of any scope, forced or not.    *)
(***************************************************************************)
FetchNext ==
  \/ \E c \in FCalls, s \in IssueScopes, f \in BOOLEAN : fetchIssues(c, s, f)
  \/ \E c \in FCalls, tok \in Tokens : FetchIssuesToken(c, tok)
  \/ \E c \in FCalls : FetchIssuesMock(c)
  \/ \E c \in FCalls, p \in Payloads : FetchIssuesResolves(c, p)
  \/ \E c \in FCalls : FetchIssuesRejects(c)

FetchSpec == IssueInit /\ [][FetchNext]_vars

(***************************************************************************)
(* The link operations: fetchIssues fills the active index; linkPRsToIssue *)
(* and unlinkPRFromIssue, with any arguments, change the links of issue 1. *)
(***************************************************************************)
\* prNumbers of linkPRsToIssue: one number, two numbers, a repeated number.
AnyLinkArgs == {<<101>>, <<101, 102>>, <<101, 101>>}

LinkNext ==
  \/ \E c \in ISlots, s \in IssueScopes : fetchIssues(c, s, FALSE)
  \/ \E c \in ISlots, tok \in Tokens : FetchIssuesToken(c, tok)
  \/ \E c \in ISlots : FetchIssuesMock(c)
  \/ \E c \in ISlots, p \in Payloads : FetchIssuesResolves(c, p)
  \/ \E c \in ISlots : FetchIssuesRejects(c)
  \/ \E c \in ISlots, s \in IssueScopes, n \in LinkedIssues, prs \in AnyLinkArgs :
       linkPRsToIssue(c, s, n, prs)
  \/ \E c \in ISlots, s \in IssueScopes, n \in LinkedIssues, pr \in {101, 102} :
       unlinkPRFromIssue(c, s, n, pr)
  \/ \E c \in ISlots, tok \in Tokens : LinkToken(c, tok)
  \/ \E c \in ISlots : LinkMock(c)
  \/ \E c \in ISlots : LinkResolves(c)
  \/ \E c \in ISlots : LinkRejects(c)

LinkSpec == IssueInit /\ [][LinkNext]_vars

(***************************************************************************)
(* Claims on the issue store.                                              *)
(***************************************************************************)
\* The call in slot c is made in this step.
ICalledNow(c) == icall[c].pc = "init" /\ icall'[c].pc # "init"
\* The call in slot c returns in this step.
IReturned(c) == IActive(c) /\ ~IActive(c)'
\* Slot c holds the call made last.
ILatest(c) == \A d \in ISlots : d > c => icall[d].pc = "init"
\* The fields of the store other than the calls.
storeVars == <<issues, repoIssueCache, loadedRepos, loading, error>>
\* The key of the issue of a linkPRsToIssue / unlinkPRFromIssue /
\* refreshIssueLinks call.
KeyOf(c) == IssueKey(icall[c].scope, icall[c].number)
\* The step in which the call in slot c finds that there is no credential.
NoCredential(c) ==
  \/ FetchIssuesToken(c, NoToken)
  \/ RefreshToken(c, NoToken)
  \/ LinkToken(c, NoToken)
LinkOps == {"linkPRsToIssue", "unlinkPRFromIssue"}

\* C14 (as stated): with no credential, fetchIssues, refreshIssueLinks,
\* linkPRsToIssue, unlinkPRFromIssue and syncPullRequest make no remote
\* call, surface "Not authenticated" (store error, or sync error list), and
\* leave the records of the active index and of the archive as they were
\* before the call.  For linkPRsToIssue / unlinkPRFromIssue "before the
\* call" is the local `issue`, when nothing else ran since the call.
C14_AuthErrorLeavesRecords ==
  [][/\ \A c \in ICalls :
          NoCredential(c)
            => /\ icall[c].remote = 0
               /\ error' = "Not authenticated"
               /\ UNCHANGED repoIssueCache
               /\ icall[c].op \notin LinkOps => UNCHANGED issues
               /\ (icall[c].op \in LinkOps /\ icall[c].quiet /\ ILatest(c))
                    => issues' = [issues EXCEPT ![KeyOf(c)] = icall[c].issue[1]]
     /\ \A t \in Tasks :
          TokenArrives(t, NoToken)
            => /\ syncErrors' = Append(syncErrors, "Not authenticated")
               /\ updatePR' = NoPR
               /\ UNCHANGED issueVars]_vars

\* C14 (amended): as stated, except that linkPRsToIssue and
\* unlinkPRFromIssue, which set isUpdatingLinks of their issue before they
\* ask for the credential, leave that flag false; every other field of
\* every record is as before the call.
C14_AuthErrorLeavesRecordsButFlag ==
  [][/\ \A c \in ICalls :
          NoCredential(c)
            => /\ icall[c].remote = 0
               /\ icall'[c].pc = "done"
               /\ error' = "Not authenticated"
               /\ UNCHANGED repoIssueCache
               /\ icall[c].op \notin LinkOps => UNCHANGED issues
               /\ icall[c].op \in LinkOps
                    => issues' = SetUpdating(issues, KeyOf(c), FALSE)
               /\ (icall[c].op \in LinkOps /\ icall[c].quiet /\ ILatest(c))
                    => issues' = [issues EXCEPT ![KeyOf(c)] =
                                    [icall[c].issue[1] EXCEPT
                                       !.isUpdatingLinks = Def(FALSE)]]
     /\ \A t \in Tasks :
          TokenArrives(t, NoToken)
            => /\ task'[t] = DoneTask
               /\ syncErrors' = Append(syncErrors, "Not authenticated")
               /\ updatePR' = NoPR
               /\ UNCHANGED issueVars]_vars

\* C14 witness: a record that api.getIssues delivered (no flag) went through
\* a linkPRsToIssue or unlinkPRFromIssue call that found no credential: its
\* flag is false, its list is as delivered, the archive is as delivered.
C14_Witness ==
  /\ error = "Not authenticated"
  /\ IRunning = {}
  /\ "o/a#1" \in DOMAIN issues
  /\ issues["o/a#1"] =
       [ApiIssue("o/a", 1, "closed") EXCEPT !.isUpdatingLinks = Def(FALSE)]
  /\ repoIssueCache["o/a"]["o/a#1"] = ApiIssue("o/a", 1, "closed")

\* Slots c and c+1 hold two consecutive fetchIssues(scope, force = false)
\* calls that have returned: nothing else was under way when either was
\* made, so nothing ran between or during them.
Consecutive(c) ==
  /\ c + 1 \in ICalls
  /\ icall[c].op = "fetchIssues" /\ icall[c + 1].op = "fetchIssues"
  /\ icall[c].pc = "done" /\ icall[c + 1].pc = "done"
  /\ icall[c].scope = icall[c + 1].scope
  /\ ~icall[c].force /\ ~icall[c + 1].force
  /\ icall[c].quiet /\ icall[c + 1].quiet

\* C15 (as stated): two consecutive fetchIssues(scope, force = false) calls
\* with nothing in between trigger exactly one remote call.  Stated for a
\* first call that went to the network: the second makes no remote call.
C15_ExactlyOneRemoteCall ==
  \A c \in ICalls :
    (Consecutive(c) /\ icall[c].remote = 1) => icall[c + 1].remote = 0

\* C15 (amended): when the first of the two calls succeeded, or found the
\* scope loaded, the second is skipped: it makes no remote call and leaves
\* the store as the first left it, so the two make at most one remote call.
C15_SecondFetchSkippedAfterSuccess ==
  /\ [](\A c \in ICalls :
          (Consecutive(c) /\ icall[c].out \in {"ok", "skipped"})
            => /\ icall[c + 1].out = "skipped"
               /\ icall[c + 1].remote = 0
               /\ icall[c].remote <= 1)
  /\ [][\A c \in ICalls :
          (/\ c + 1 \in ICalls
           /\ ICalledNow(c + 1)
           /\ icall[c].op = "fetchIssues" /\ icall[c].pc = "done"
           /\ icall[c].out \in {"ok", "skipped"} /\ icall[c].quiet
           /\ icall'[c + 1].op = "fetchIssues"
           /\ icall'[c + 1].scope = icall[c].scope
           /\ ~icall[c].force /\ ~icall'[c + 1].force)
            => /\ UNCHANGED storeVars
               /\ icall'[c + 1].pc = "done"]_vars

\* C15 witness: the first call fetched the scope from the network, the
\* second was skipped.
C15_Witness ==
  /\ Consecutive(1)
  /\ icall[1].out = "ok" /\ icall[1].remote = 1
  /\ icall[2].out = "skipped"
  /\ "o/a#2" \in DOMAIN issues

\* C16: while loading is true every fetchIssues call (any scope, any force)
\* returns at once and changes nothing; at most one fetchIssues call is
\* under way, and so at most one api.getIssues call is outstanding.
C16_InFlightDedup ==
  /\ [](/\ Cardinality({c \in ICalls :
                          icall[c].op = "fetchIssues" /\ IActive(c)}) <= 1
        /\ (\E c \in ICalls : icall[c].op = "fetchIssues" /\ IActive(c))
             => loading)
  /\ [][\A c \in ICalls :
          (ICalledNow(c) /\ icall'[c].op = "fetchIssues" /\ loading)
            => /\ UNCHANGED storeVars
               /\ icall'[c].pc = "done"
               /\ icall'[c].out = "skipped"
               /\ icall'[c].remote = 0
               /\ \A d \in ICalls \ {c} : icall'[d] = icall[d]]_vars

\* C16 witness: a forced fetchIssues call for another scope was skipped
\* while the api.getIssues call of the first is outstanding.
C16_Witness ==
  /\ loading
  /\ icall[1].op = "fetchIssues" /\ icall[1].pc = "getIssues"
  /\ icall[1].scope = "o/a"
  /\ icall[2].op = "fetchIssues" /\ icall[2].out = "skipped"
  /\ icall[2].scope = "o/b" /\ icall[2].force

\* C17: a forced fetchIssues keeps linkedPRs and isUpdatingLinks of the
\* records that were in the active index, and takes the other fields from
\* the answer.  Stated for a call during which nothing else ran, so that
\* the records it finds when it completes are those held before the call.
C17_RefetchKeepsAugmentation ==
  [][\A c \in ICalls :
       (icall[c].op = "fetchIssues" /\ icall[c].force
          /\ icall[c].quiet /\ ILatest(c)
          /\ IReturned(c) /\ icall'[c].out = "ok")
         => \A k \in DOMAIN issues \cap DOMAIN issues' :
              /\ issues'[k].linkedPRs = issues[k].linkedPRs
              /\ issues'[k].isUpdatingLinks = issues[k].isUpdatingLinks]_vars

\* C18: a fetchIssues call whose remote call fails sets error to the
\* message and loading to false; no step of the call (the call itself, the
\* arrival of the credential, the failure) changes issues, repoIssueCache
\* or loadedRepos.
C18_FailedFetchKeepsData ==
  [][\A c \in ICalls :
       /\ (icall'[c].op = "fetchIssues" /\ icall'[c] # icall[c]
             /\ icall'[c].out # "ok")
            => UNCHANGED <<issues, repoIssueCache, loadedRepos>>
       /\ (icall[c].op = "fetchIssues" /\ IReturned(c)
             /\ icall'[c].out = "failed")
            => /\ error' \in ErrorMessages \cup {"Not authenticated"}
               /\ ~loading'
       /\ (icall[c].op = "fetchIssues" /\ icall[c].pc = "getIssues"
             /\ IReturned(c) /\ icall'[c].out = "failed")
            => error' \in ErrorMessages]_vars

\* C18 witness: the remote call of a fetchIssues call has failed; the
\* records fetched before are still there and the scope is still loaded.
C18_Witness ==
  /\ icall[2].op = "fetchIssues" /\ icall[2].out = "failed"
  /\ icall[2].remote = 1
  /\ error = "Network error"
  /\ ~loading
  /\ "o/a#2" \in DOMAIN issues
  /\ loadedRepos = {"o/a"}
  /\ repoIssueCache["o/a"] = issues

\* C19: when an operation that changed a record of the active index has
\* returned, the archive holds an equal record under the same key.
C19_TwoLevelCoherence ==
  [][\A c \in ICalls :
       (icall[c].pc # "done" /\ icall'[c].pc = "done")
         => \A k \in DOMAIN issues' :
              (k \notin DOMAIN issues \/ issues'[k] # issues[k])
                => /\ issues'[k].repository \in DOMAIN repoIssueCache'
                   /\ k \in DOMAIN repoIssueCache'[issues'[k].repository]
                   /\ repoIssueCache'[issues'[k].repository][k] = issues'[k]]_vars

\* C20: right after updateIssue(record) of scope S and key K, issues[K] and
\* repoIssueCache[S][K] are equal, also when S had no archive entry.
C20_UpdateIssueCoherent ==
  [][\A c \in ICalls, i \in UpdateArgs :
       (updateIssue(c, i) /\ i.repository # NoRepo)
         => LET K == IssueKey(i.repository, i.number) IN
            /\ K \in DOMAIN issues'
            /\ i.repository \in DOMAIN repoIssueCache'
            /\ K \in DOMAIN repoIssueCache'[i.repository]
            /\ issues'[K] = repoIssueCache'[i.repository][K]
            /\ issues'[K].state = i.state]_vars

\* C20 witness: updateIssue stored a record of a scope that was never
\* fetched; the archive entry of the scope was created with it.
C20_Witness ==
  /\ loadedRepos = {}
  /\ DOMAIN repoIssueCache = {"o/b"}
  /\ "o/b#1" \in DOMAIN issues
  /\ repoIssueCache["o/b"]["o/b#1"] = issues["o/b#1"]
  /\ issues["o/b#1"].linkedPRs = Def(<<101>>)

\* issue.isUpdatingLinks || false
FlagOf(field) == IF field = Undefined THEN FALSE ELSE field[1]

BulkOps == {"closeIssues", "reopenIssues", "addLabelsToIssues"}

\* C22: a bulk operation (closeIssues, reopenIssues, addLabelsToIssues)
\* writes the records it targets in one step: a step of the operation that
\* changes the active index leaves none of its remote calls outstanding, so
\* no state has some of the targeted records changed and others still to
\* be changed.
C22_BulkAtomic ==
  [][\A c \in ICalls :
       (icall[c].op \in BulkOps /\ icall'[c] # icall[c] /\ issues' # issues)
         => icall'[c].nums = {}]_vars

\* C23: when fetchIssues(S, force = false) returns for a scope S that is
\* loaded (no fetch being under way), the active index holds the records
\* archived for S, and the call made no remote call.
C23_SeededFromArchive ==
  [][\A c \in FCalls, S \in IssueScopes :
       (fetchIssues(c, S, FALSE) /\ S \in loadedRepos /\ ~loading)
         => /\ icall'[c].pc = "done"
            /\ icall'[c].remote = 0
            /\ issues' = repoIssueCache'[S]]_vars

\* C24: refreshIssueLinks(scope, number) with forceAPI = false and a real
\* credential makes no remote call: when the credential arrives it sets
\* linkedPRs of the issue (if the active index holds it) to the list that
\* getLinkedPRsFromCache derived from the cached pull requests, changes
\* nothing else, and returns.
C24_DefaultLinkResolutionIsLocal ==
  /\ [](\A c \in ICalls :
          (icall[c].op = "refreshIssueLinks" /\ ~icall[c].force)
            => icall[c].remote = 0)
  /\ [][\A c \in ICalls :
          /\ (ICalledNow(c) /\ icall'[c].op = "refreshIssueLinks")
               => UNCHANGED storeVars
          /\ (RefreshToken(c, RealToken) /\ ~icall[c].force)
               => /\ icall'[c].pc = "done"
                  /\ \E linkedPRs \in LinkLists :
                       issues' = SetLinkedPRs(issues, KeyOf(c), linkedPRs)
                  /\ UNCHANGED <<repoIssueCache, loadedRepos, loading,
                                 error>>]_vars

\* C24 witness: issue o/a#1 came from api.getIssues (no list, no flag); an
\* unforced refreshIssueLinks has returned without a remote call and the
\* record holds the list [101] derived from the cache.
C24_Witness ==
  /\ icall[1].op = "fetchIssues" /\ icall[1].out = "ok" /\ icall[1].remote = 1
  /\ icall[2].op = "refreshIssueLinks" /\ icall[2].pc = "done"
  /\ ~icall[2].force /\ icall[2].remote = 0
  /\ "o/a#1" \in DOMAIN issues
  /\ issues["o/a#1"].linkedPRs = Def(<<101>>)
  /\ issues["o/a#1"].isUpdatingLinks = Undefined
  /\ error = NoError

\* The api.getIssueDevelopment call of the refreshIssueLinks call in slot c
\* is outstanding.
Lookup(c) ==
  icall[c].op = "refreshIssueLinks" /\ icall[c].pc = "getIssueDevelopment"

\* C25: with a real credential refreshIssueLinks(scope, number, forceAPI =
\* true) makes exactly one remote lookup.  When it resolves, linkedPRs of
\* the issue becomes the list of the answer, whatever was stored, and
\* nothing else changes; when it fails, no record changes and error is set
\* to the message.
C25_ForcedLinkResolution ==
  /\ [](\A c \in ICalls : Lookup(c) => icall[c].force /\ icall[c].remote = 1)
  /\ [][\A c \in ICalls :
          /\ (RefreshToken(c, RealToken) /\ icall[c].force)
               => /\ Lookup(c)' /\ icall[c].remote = 0
                  /\ UNCHANGED storeVars
          /\ (Lookup(c) /\ IReturned(c))
               => /\ icall'[c].remote = 1
                  /\ UNCHANGED <<repoIssueCache, loadedRepos, loading>>
                  /\ \/ \E pullRequests \in LinkLists :
                          RefreshResolves(c, pullRequests)
                     \/ RefreshRejects(c)
          /\ \A pullRequests \in LinkLists :
               RefreshResolves(c, pullRequests)
                 => /\ issues' = SetLinkedPRs(issues, KeyOf(c), pullRequests)
                    /\ UNCHANGED error
          /\ (Lookup(c) /\ RefreshRejects(c))
               => /\ UNCHANGED issues
                  /\ error' \in ErrorMessages]_vars

\* C25 witness: the record of o/a#1 was stored by updateIssue with the list
\* [101] (the archive still has it); a forced refreshIssueLinks made one
\* lookup, which answered with the empty list, and the active index holds
\* the empty list.
C25_Witness ==
  /\ icall[2].op = "refreshIssueLinks" /\ icall[2].pc = "done"
  /\ icall[2].force /\ icall[2].remote = 1 /\ error = NoError
  /\ "o/a#1" \in DOMAIN issues
  /\ issues["o/a#1"].linkedPRs = Def(<< >>)
  /\ repoIssueCache["o/a"]["o/a#1"].linkedPRs = Def(<<101>>)

\* A remote call of the linkPRsToIssue / unlinkPRFromIssue call in slot c is
\* outstanding.
Linking(c) == icall[c].op \in LinkOps /\ icall[c].pc = "remote"

\* C26: linkPRsToIssue and unlinkPRFromIssue set isUpdatingLinks of their
\* issue when they are called, before any remote call.  No step of the
\* operation before its last changes a record.  When a remote call fails
\* (the first or a later one), the flag is cleared, error is set to the
\* message, the promise of the operation is rejected, and linkedPRs of every
\* record is as before the step; when nothing else ran since the call, the
\* record is the one found by the call, with the flag false.
C26_LinkRollback ==
  [][\A c \in ICalls :
       /\ (ICalledNow(c) /\ icall'[c].op \in LinkOps /\ IActive(c)')
            => /\ issues' = SetUpdating(issues,
                              IssueKey(icall'[c].scope, icall'[c].number), TRUE)
               /\ icall'[c].remote = 0
               /\ UNCHANGED <<repoIssueCache, loadedRepos, loading, error>>
       /\ (Linking(c) /\ icall'[c] # icall[c] /\ ~IReturned(c))
            => UNCHANGED storeVars
       /\ (Linking(c) /\ LinkRejects(c))
            => /\ icall'[c].pc = "done" /\ icall'[c].out = "thrown"
               /\ error' \in ErrorMessages
               /\ issues' = SetUpdating(issues, KeyOf(c), FALSE)
               /\ UNCHANGED <<repoIssueCache, loadedRepos, loading>>
               /\ (icall[c].quiet /\ ILatest(c))
                    => issues' = [issues EXCEPT ![KeyOf(c)] =
                                    [icall[c].issue[1] EXCEPT
                                       !.isUpdatingLinks = Def(FALSE)]]]_vars

\* C26 witness: issue o/a#1 came from api.getIssues; linkPRsToIssue for two
\* pull requests failed at its second remote call and threw: the flag is
\* false, no list was stored, the error is set.
C26_Witness ==
  /\ icall[1].op = "fetchIssues" /\ icall[1].out = "ok"
  /\ icall[2].pc = "done" /\ icall[2].out = "thrown" /\ icall[2].remote = 2
  /\ error = "Network error"
  /\ "o/a#1" \in DOMAIN issues
  /\ issues["o/a#1"].isUpdatingLinks = Def(FALSE)
  /\ issues["o/a#1"].linkedPRs = Undefined


(***************************************************************************)
(* Part 3: the Devin store (src/src/renderer/stores/devinStore.ts).        *)
(*                                                                         *)
(* The settings store of the main process is the durable store.  A         *)
(* settings.set call is a message to the main process: it is in flight     *)
(* from the step that makes the call to the step in which the main         *)
(* process answers, and the calls are answered in the order they were      *)
(* made.  devinLog is not state of the program: it counts the              *)
(* saveDevinCache calls, those that found no write scheduled (the first    *)
(* of a burst), and the writes the save timers issued.                     *)
(***************************************************************************)

\* Lines 196-199: newest first; Array.prototype.sort is stable.
RECURSIVE InsertNewest(_, _)
InsertNewest(c, sorted) ==
  IF sorted = << >> THEN <<c>>
  ELSE IF Head(sorted).createdAt[1] >= c.createdAt[1]
    THEN <<Head(sorted)>> \o InsertNewest(c, Tail(sorted))
    ELSE <<c>> \o sorted

RECURSIVE SortNewestFirst(_)
SortNewestFirst(list) ==
  IF list = << >> THEN << >>
  ELSE InsertNewest(list[Len(list)], SortNewestFirst(SubSeq(list, 1, Len(list) - 1)))

\* saveDevinCache that leaves the scheduled write pending.
saveDevinCacheKeepsPending(comments, lastFetched) ==
  LET id == devinLog.saves + 1 IN
  /\ devinTimers' = devinTimers \cup
                      {[id |-> id, comments |-> comments, lastFetched |-> lastFetched]}
  /\ devinCacheSaveTimer' = id
  /\ devinLog' = [devinLog EXCEPT
                    !.saves = id,
                    !.bursts = IF devinTimers = {} THEN @ + 1 ELSE @,
                    !.last = [comments |-> comments, lastFetched |-> lastFetched]]

\* Lines 51-73: clearTimeout of the timer the variable names (of no effect
\* when that timer has fired), then a new timer whose callback holds the
\* arguments of this call.
saveDevinCache(comments, lastFetched) ==
  LET id == devinLog.saves + 1
      kept == IF devinCacheSaveTimer # 0
                THEN {t \in devinTimers : t.id # devinCacheSaveTimer}
                ELSE devinTimers
  IN
  /\ devinTimers' = kept \cup
                      {[id |-> id, comments |-> comments, lastFetched |-> lastFetched]}
  /\ devinCacheSaveTimer' = id
  /\ devinLog' = [devinLog EXCEPT
                    !.saves = id,
                    !.bursts = IF devinTimers = {} THEN @ + 1 ELSE @,
                    !.last = [comments |-> comments, lastFetched |-> lastFetched]]

\* Lines 118-138, with the credential in hand, in the k-th call: no
\* credential throws into the catch of lines 210-216; the sentinel stores
\* an empty list and returns; with no recently viewed repository the empty
\* list is stored and saved; otherwise the fetch loop starts.
DevinWithToken(token, k) ==
  IF token = NoToken
    THEN /\ devin' = [devin EXCEPT !.loading = FALSE, !.error = "Not authenticated"]
         /\ dfetch' = [dfetch EXCEPT !.pc = "idle", !.calls = k]
         /\ UNCHANGED <<devinCacheSaveTimer, devinTimers, devinLog>>
  ELSE IF token = DevToken
    THEN /\ devin' = [devin EXCEPT !.comments = << >>, !.loading = FALSE,
                                   !.error = NoError,
                                   !.lastFetched = Def(DateNow(k))]
         /\ dfetch' = [dfetch EXCEPT !.pc = "idle", !.calls = k]
         /\ UNCHANGED <<devinCacheSaveTimer, devinTimers, devinLog>>
  ELSE IF recentlyViewedRepos = << >>
    THEN /\ devin' = [devin EXCEPT !.comments = << >>, !.loading = FALSE,
                                   !.error = NoError,
                                   !.lastFetched = Def(DateNow(k))]
         /\ dfetch' = [dfetch EXCEPT !.pc = "idle", !.calls = k]
         /\ saveDevinCache(<< >>, DateNow(k))
    ELSE /\ devin' = [devin EXCEPT !.loading = TRUE, !.error = NoError]
         /\ dfetch' = [dfetch EXCEPT !.pc = "fetching", !.calls = k]
         /\ UNCHANGED <<devinCacheSaveTimer, devinTimers, devinLog>>

\* Lines 103-116: the call.  It returns at once while a fetch is loading.
\* In the desktop build it awaits auth.getToken(); elsewhere `token` is the
\* credential authStore holds and the function runs on.
fetchDevinComments(token) ==
  /\ dfetch.calls < MaxDevinCalls
  /\ IF devin.loading
       THEN /\ dfetch' = [dfetch EXCEPT !.calls = @ + 1]
            /\ UNCHANGED <<devin, devinCacheSaveTimer, devinTimers, devinLog>>
     ELSE IF electron
       THEN /\ devin' = [devin EXCEPT !.loading = TRUE, !.error = NoError]
            /\ dfetch' = [dfetch EXCEPT !.pc = "getToken", !.calls = @ + 1]
            /\ UNCHANGED <<devinCacheSaveTimer, devinTimers, devinLog>>
       ELSE DevinWithToken(token, dfetch.calls + 1)
  /\ UNCHANGED <<electron, devinCache, settingsSet, hydrate, devinSide>>

\* Line 113: auth.getToken() resolves.
DevinToken(token) ==
  /\ dfetch.pc = "getToken"
  /\ DevinWithToken(token, dfetch.calls)
  /\ UNCHANGED <<electron, devinCache, settingsSet, hydrate, devinSide>>

\* Line 113 rejects: the catch of lines 210-216.
DevinTokenRejects(msg) ==
  /\ dfetch.pc = "getToken"
  /\ devin' = [devin EXCEPT !.error = msg, !.loading = FALSE]
  /\ dfetch' = [dfetch EXCEPT !.pc = "idle"]
  /\ UNCHANGED <<electron, devinCacheSaveTimer, devinTimers, devinCache,
                 settingsSet, hydrate, devinLog, devinSide>>

\* Lines 140-209: the loops are over (a remote call that fails is caught
\* inside them, lines 187-193, and only shortens the list); the list is
\* sorted, stored and saved.
DevinFetched(allDevinComments) ==
  /\ dfetch.pc = "fetching"
  /\ LET sorted == SortNewestFirst(allDevinComments)
         now == DateNow(dfetch.calls)
     IN /\ devin' = [devin EXCEPT !.comments = sorted, !.loading = FALSE,
                                  !.lastFetched = Def(now)]
        /\ saveDevinCache(sorted, now)
  /\ dfetch' = [dfetch EXCEPT !.pc = "idle"]
  /\ UNCHANGED <<electron, devinCache, settingsSet, hydrate, devinSide>>

\* Lines 56-72: the timer fires.  In the desktop build it builds cacheData
\* and calls settings.set; toISOString throws on an Invalid Date, and the
\* catch of line 68 leaves it at that.
SaveTimerFires(t) ==
  /\ t \in devinTimers
  /\ devinTimers' = devinTimers \ {t}
  /\ IF electron /\ \A i \in 1..Len(t.comments) : t.comments[i].createdAt # InvalidDate
       THEN /\ settingsSet' = Append(settingsSet,
                                     [by |-> "saveDevinCache",
                                      value |-> cacheData(t.comments, t.lastFetched)])
            /\ devinLog' = [devinLog EXCEPT !.writes = @ + 1]
       ELSE UNCHANGED <<settingsSet, devinLog>>
  /\ UNCHANGED <<electron, devin, devinCacheSaveTimer, devinCache, hydrate,
                 dfetch, devinSide>>

\* The main process stores the value of the oldest call and answers.
SettingsSetResolves ==
  /\ settingsSet # << >>
  /\ devinCache' = Head(settingsSet).value
  /\ settingsSet' = Tail(settingsSet)
  /\ UNCHANGED <<electron, devin, devinCacheSaveTimer, devinTimers, hydrate,
                 dfetch, devinLog, devinSide>>

\* A failed write that reports the failure in the store.
SettingsSetRejectsSetsError ==
  /\ settingsSet # << >>
  /\ settingsSet' = Tail(settingsSet)
  /\ devin' = [devin EXCEPT !.error = "Failed to save Devin cache"]
  /\ UNCHANGED <<electron, devinCacheSaveTimer, devinTimers, devinCache,
                 hydrate, dfetch, devinLog, devinSide>>

\* The oldest call fails: line 68 catches it for a save, and nothing awaits
\* it for a clear.
SettingsSetRejects ==
  /\ settingsSet # << >>
  /\ settingsSet' = Tail(settingsSet)
  /\ UNCHANGED <<electron, devin, devinCacheSaveTimer, devinTimers, devinCache,
                 hydrate, dfetch, devinLog, devinSide>>

\* clearComments that saves the empty list through saveDevinCache.
clearCommentsDebounced ==
  /\ dfetch.clears < MaxClears
  /\ devin' = [devin EXCEPT !.comments = << >>, !.lastFetched = Undefined,
                            !.error = NoError]
  /\ IF electron
       THEN saveDevinCache(<< >>, 0)
       ELSE UNCHANGED <<devinCacheSaveTimer, devinTimers, devinLog>>
  /\ dfetch' = [dfetch EXCEPT !.clears = @ + 1]
  /\ UNCHANGED <<electron, devinCache, settingsSet, hydrate, devinSide>>

\* Lines 219-224.
clearComments ==
  /\ dfetch.clears < MaxClears
  /\ devin' = [devin EXCEPT !.comments = << >>, !.lastFetched = Undefined,
                            !.error = NoError]
  /\ settingsSet' = IF electron
                      THEN Append(settingsSet, [by |-> "clearComments",
                                                value |-> NoSnapshot])
                      ELSE settingsSet
  /\ dfetch' = [dfetch EXCEPT !.clears = @ + 1]
  /\ UNCHANGED <<electron, devinCacheSaveTimer, devinTimers, devinCache,
                 hydrate, devinLog, devinSide>>

\* Line 33: the main process answers settings.get with what it holds, or
\* fails to.
SettingsGetSettles(outcome) ==
  /\ hydrate.pc = "get"
  /\ hydrate' = [pc |-> "settled", outcome |-> outcome,
                 value |-> IF outcome = "success" THEN devinCache ELSE NoSnapshot]
  /\ UNCHANGED <<electron, devin, devinCacheSaveTimer, devinTimers, devinCache,
                 settingsSet, dfetch, devinLog, devinSide>>

\* Lines 88-94: loadDevinCache resolves and the store takes its result.
HydrateResolves ==
  /\ hydrate.pc = "settled"
  /\ LET loaded == loadDevinCache(electron, hydrate.outcome, hydrate.value) IN
       devin' = IF Len(loaded.comments) > 0
                  THEN [devin EXCEPT !.comments = loaded.comments,
                                     !.lastFetched = loaded.lastFetched,
                                     !.cacheLoaded = TRUE]
                  ELSE [devin EXCEPT !.cacheLoaded = TRUE]
  /\ hydrate' = [hydrate EXCEPT !.pc = "done"]
  /\ UNCHANGED <<electron, devinCacheSaveTimer, devinTimers, devinCache,
                 settingsSet, dfetch, devinLog, devinSide>>

DevinNext ==
  \/ \E token \in Tokens : fetchDevinComments(token)
  \/ \E token \in Tokens : DevinToken(token)
  \/ \E msg \in ErrorMessages : DevinTokenRejects(msg)
  \/ \E list \in ApiLists : DevinFetched(list)
  \/ \E t \in devinTimers : SaveTimerFires(t)
  \/ SettingsSetResolves
  \/ SettingsSetRejects
  \/ clearComments
  \/ \E outcome \in GetOutcomes : SettingsGetSettles(outcome)
  \/ HydrateResolves

\* The Devin store alone: the other stores are at rest, the application
\* runs in the desktop build or without it, and the settings store holds
\* one of the values it may hold at start.
DevinInit ==
  /\ SyncStoreInit
  /\ selectedRepo = NoRepo
  /\ IssueStoreInit
  /\ \E el \in BOOLEAN :
       \E stored \in (IF el THEN StoredAtStart ELSE {NoSnapshot}) :
         DevinStoreInit(el, stored)
  /\ LabelStoreInit
  /\ OrgStoreInit(Undefined)

DevinSpec == DevinInit /\ [][DevinNext]_vars


(***************************************************************************)
(* Claims on the Devin store.                                              *)
(***************************************************************************)

\* C27: the saveDevinCache calls made while a write is scheduled yield one
\* write to the settings store, with the payload of the last call.  At most
\* one write is scheduled at any time; a call leaves scheduled only its own
\* write; in the desktop build every burst of calls has exactly one write,
\* issued or still scheduled; and the write a timer issues carries the
\* arguments of the last call.
C27_DebounceCoalescing ==
  /\ [](Cardinality(devinTimers) <= 1)
  /\ [](electron => devinLog.writes + Cardinality(devinTimers) = devinLog.bursts)
  /\ [][devinLog'.saves # devinLog.saves
          => devinTimers' = {[id |-> devinCacheSaveTimer',
                              comments |-> devinLog'.last.comments,
                              lastFetched |-> devinLog'.last.lastFetched]}]_vars
  /\ [][\A t \in devinTimers :
          (electron /\ SaveTimerFires(t))
            => settingsSet' =
                 Append(settingsSet,
                        [by |-> "saveDevinCache",
                         value |-> cacheData(devinLog.last.comments,
                                             devinLog.last.lastFetched)])]_vars

\* Two calls in one burst, and the one write holds the list of the second.
C27_Witness ==
  /\ electron
  /\ devinLog.saves = 2
  /\ devinLog.bursts = 1
  /\ devinLog.writes = 1
  /\ devinTimers = {}
  /\ settingsSet = << >>
  /\ Len(devinLog.last.comments) = 2
  /\ devinCache = cacheData(devinLog.last.comments, DateNow(2))

\* C28: in the desktop build clearComments empties the comments in memory
\* and, in the same step, calls settings.set with the cleared value; it
\* neither schedules a timer nor touches the one that is pending.
C28_ClearBypassesDebounce ==
  [][(electron /\ dfetch'.clears # dfetch.clears)
       => /\ devin'.comments = << >>
          /\ devin'.lastFetched = Undefined
          /\ settingsSet' = Append(settingsSet, [by |-> "clearComments",
                                                 value |-> NoSnapshot])
          /\ devinTimers' = devinTimers
          /\ devinCacheSaveTimer' = devinCacheSaveTimer]_vars

\* The settings store held a snapshot at start; the clear was made and
\* answered while a save was still scheduled, and the store holds null.
C28_Witness ==
  /\ electron
  /\ dfetch.clears = 1
  /\ hydrate.value # NoSnapshot
  /\ devinTimers # {}
  /\ settingsSet = << >>
  /\ devinCache = NoSnapshot
  /\ devin.comments = << >>


\* C29: what a save writes, read back by loadDevinCache, is the list that
\* was saved, every createdAt the same instant, and the same lastFetched;
\* and a hydration that reads the snapshot of the last save puts that list
\* and that lastFetched into the store.
C29_RoundTrip ==
  /\ [][\A t \in devinTimers :
          (SaveTimerFires(t) /\ settingsSet' # settingsSet)
            => loadDevinCache(TRUE, "success", settingsSet'[Len(settingsSet')].value)
                 = [comments |-> t.comments, lastFetched |-> Def(t.lastFetched)]]_vars
  /\ [][(/\ HydrateResolves
         /\ devinLog.writes > 0
         /\ Len(devinLog.last.comments) > 0
         /\ hydrate.value = cacheData(devinLog.last.comments,
                                      devinLog.last.lastFetched))
          => /\ devin'.comments = devinLog.last.comments
             /\ devin'.lastFetched = Def(devinLog.last.lastFetched)]_vars

\* One fetch stored and saved two comments; the settings store answered
\* the read with that snapshot; a clear emptied the store and the settings
\* store; the hydration then put the two comments back.
C29_Witness ==
  /\ electron
  /\ hydrate.pc = "done"
  /\ dfetch.calls = 1
  /\ dfetch.clears = 1
  /\ devinLog.writes = 1
  /\ hydrate.value = cacheData(devinLog.last.comments, devinLog.last.lastFetched)
  /\ devinCache = NoSnapshot
  /\ settingsSet = << >>
  /\ Len(devin.comments) = 2
  /\ devin.comments = devinLog.last.comments
  /\ devin.lastFetched = Def(DateNow(1))

\* What settings.get answered is no usable snapshot: the read failed, the
\* store holds nothing, the value has no `comments` array, or an entry of
\* `comments` has no createdAt that is a date.
Unusable(h) ==
  \/ h.outcome # "success"
  \/ h.value.kind # "object"
  \/ \E i \in 1..Len(h.value.comments) :
       NewDate(h.value.comments[i].createdAt) = InvalidDate

\* C30: when the snapshot is absent, unreadable or malformed, loadDevinCache
\* yields an empty list with lastFetched = null, and the hydration changes
\* nothing in the store but cacheLoaded, which becomes true.
C30_HydrationNeverFails ==
  [][(HydrateResolves /\ Unusable(hydrate))
       => /\ loadDevinCache(electron, hydrate.outcome, hydrate.value)
               = [comments |-> << >>, lastFetched |-> Undefined]
          /\ devin' = [devin EXCEPT !.cacheLoaded = TRUE]]_vars


\* The fields of the store that C31 names.
Served(d) == <<d.comments, d.lastFetched, d.loading, d.error>>

\* C31: a settings.set call that fails changes nothing in memory: the
\* store, the position of fetchDevinComments and the save timer are as they
\* were, so a later fetch or clear does what it does without the failure.
\* A settings.get that fails changes nothing either, and the hydration that
\* follows it changes cacheLoaded only.
C31_PersistenceFailuresNonFatal ==
  /\ [][SettingsSetRejects
          => UNCHANGED <<devin, dfetch, devinCacheSaveTimer, devinTimers>>]_vars
  /\ [][\A o \in GetOutcomes \ {"success"} :
          SettingsGetSettles(o)
            => UNCHANGED <<devin, dfetch, devinCacheSaveTimer, devinTimers>>]_vars
  /\ [][(HydrateResolves /\ hydrate.outcome \in GetOutcomes \ {"success"})
          => /\ Served(devin') = Served(devin)
             /\ UNCHANGED <<dfetch, devinCacheSaveTimer, devinTimers>>]_vars

\* The read was rejected and the one write was lost (the settings store
\* still holds nothing); the store serves the two comments of the fetch.
C31_Witness ==
  /\ electron
  /\ hydrate.pc = "done"
  /\ hydrate.outcome = "rejected"
  /\ dfetch.clears = 0
  /\ devinLog.writes = 1
  /\ settingsSet = << >>
  /\ devinTimers = {}
  /\ devinCache = NoSnapshot
  /\ Len(devin.comments) = 2
  /\ devin.lastFetched = Def(DateNow(1))
  /\ devin.error = NoError
  /\ ~devin.loading


\* The last of the clears and completed fetches was a clear: only
\* clearComments sets lastFetched to null, and every fetch that completes
\* (and a hydration that loads comments) sets it to a number.
Cleared == dfetch.clears > 0 /\ devin.lastFetched = Undefined

\* C39: a save timer that is still pending after a clear was scheduled
\* before it; when it fires and no fetch has completed since the clear, it
\* does not write its comments to the settings store.
C39_ClearIsFinal ==
  [][\A t \in devinTimers :
       (SaveTimerFires(t) /\ Cleared /\ Len(t.comments) > 0)
         => settingsSet' = settingsSet]_vars

\* C40: a hydration that resolves after a fetch has completed or a clear
\* was made leaves the comments and lastFetched of the store as they are.
C40_HydrationKeepsFresherData ==
  [][(HydrateResolves /\ (dfetch.clears > 0 \/ devin.lastFetched # Undefined))
       => /\ devin'.comments = devin.comments
          /\ devin'.lastFetched = devin.lastFetched]_vars


(***************************************************************************)
(* Further claims on the sync store and on the issue store.                *)
(***************************************************************************)

\* C32: when prStore.fetchRepositories() of a syncAll run rejects, the run
\* has issued no fetchPullRequests call and issues none; it ends with
\* isSyncing false, syncProgress 0, syncMessage "Sync failed", the message
\* of the failure appended to syncErrors, and lastSyncTime as it was.
C32_RepositoryListFailure ==
  [][\A t \in Tasks :
       FetchRepositoriesRejects(t)
         => /\ task[t].fetch = << >>
            /\ task'[t].fetch = << >>
            /\ task'[t].pc = "done"
            /\ ~isSyncing'
            /\ syncProgress' = 0
            /\ syncMessage' = "Sync failed"
            /\ \E msg \in ErrorMessages : syncErrors' = Append(syncErrors, msg)
            /\ lastSyncTime' = lastSyncTime]_vars

\* The only call was a syncAll (its debounce timer is pending) and it ended
\* in the catch block: no batch was started, so fetchRepositories rejected.
C32_Witness ==
  /\ task[1] = DoneTask
  /\ \A t \in Tasks \ {1} : task[t] = FreshTask
  /\ Timer("debounce", 1) \in timers
  /\ ~isSyncing
  /\ syncProgress = 0
  /\ syncMessage = "Sync failed"
  /\ syncErrors = <<"Network error">>
  /\ lastSyncTime = NoTime


\* The link operations under way on the issue under key k.
LinksInFlight(k) ==
  {c \in ISlots : /\ icall[c].op \in {"linkPRsToIssue", "unlinkPRFromIssue"}
                  /\ IActive(c)
                  /\ IssueKey(icall[c].scope, icall[c].number) = k}

\* C37: for every issue of the active index, isUpdatingLinks is true while
\* a linkPRsToIssue or unlinkPRFromIssue call on it is under way, and false
\* when none is.
C37_FlagTracksLinkOperations ==
  \A k \in DOMAIN issues :
    FlagOf(issues[k].isUpdatingLinks) = (LinksInFlight(k) # {})

\* No two entries of the list are the same pull request.
NoDuplicates(list) ==
  \A i, j \in 1..Len(list) : list[i] = list[j] => i = j

\* C38: linkedPRs of an issue never holds a pull request twice.
C38_NoDuplicateLinks ==
  \A k \in DOMAIN issues : NoDuplicates(ListOf(issues[k].linkedPRs))


(***************************************************************************)
(* Part 4: the label store (src/src/renderer/stores/labelStore.ts).        *)
(*                                                                         *)
(* The credential is read from authStore without an await; a GitHubAPI     *)
(* that cannot be built throws inside the try block and is caught like a   *)
(* remote call that rejects.                                               *)
(***************************************************************************)

\* Lines 34-39 without !forceRefresh: the cached list is there, not empty,
\* and less than CACHE_DURATION old.
Fresh(repo, now) ==
  /\ labelStore.labels[repo] # Undefined
  /\ Len(labelStore.labels[repo][1]) > 0
  /\ now - Coalesce(labelStore.lastFetched[repo], Def(0))[1] < CACHE_DURATION

\* Line 44, state.loading.get(repoKey): undefined and false are falsy.
IsLoading(repo) ==
  labelStore.loading[repo] # Undefined /\ labelStore.loading[repo][1]

\* A call that returned: `now` and `cached`, its local variables, are gone.
Settled(call) == [call EXCEPT !.now = 0, !.cached = Undefined]

\* fetchLabels that starts a fetch whatever loading holds.
fetchLabelsUnguarded(c, repo, forceRefresh) ==
  /\ lcall[c].pc = "init"
  /\ \A d \in LCalls : d < c => lcall[d].pc # "init"
  /\ LET cached == labelStore.labels[repo]
         call == [LFresh EXCEPT !.repo = repo, !.force = forceRefresh,
                                !.now = clock, !.cached = cached]
     IN IF ~forceRefresh /\ Fresh(repo, clock)
          THEN /\ lcall' = [lcall EXCEPT ![c] =
                              [Settled(call) EXCEPT !.pc = "done", !.out = cached[1]]]
               /\ UNCHANGED labelStore
          ELSE /\ lcall' = [lcall EXCEPT ![c] =
                              [call EXCEPT !.pc = "getRepoLabels", !.remote = 1]]
               /\ labelStore' = [labelStore EXCEPT !.loading[repo] = Def(TRUE)]
  /\ UNCHANGED <<clock, orgVars, restSide>>

\* Lines 26-57: the call.  A fresh cache, or a fetch of the repository
\* under way, make it return at once; otherwise loading is set and
\* api.getRepoLabels is called.
fetchLabels(c, repo, forceRefresh) ==
  /\ lcall[c].pc = "init"
  /\ \A d \in LCalls : d < c => lcall[d].pc # "init"
  /\ LET cached == labelStore.labels[repo]
         call == [LFresh EXCEPT !.repo = repo, !.force = forceRefresh,
                                !.now = clock, !.cached = cached]
     IN IF ~forceRefresh /\ Fresh(repo, clock)
          THEN /\ lcall' = [lcall EXCEPT ![c] =
                              [Settled(call) EXCEPT !.pc = "done", !.out = cached[1]]]
               /\ UNCHANGED labelStore
        ELSE IF IsLoading(repo)
          THEN /\ lcall' = [lcall EXCEPT ![c] =
                              [Settled(call) EXCEPT !.pc = "done", !.out = ListOf(cached)]]
               /\ UNCHANGED labelStore
          ELSE /\ lcall' = [lcall EXCEPT ![c] =
                              [call EXCEPT !.pc = "getRepoLabels", !.remote = 1]]
               /\ labelStore' = [labelStore EXCEPT !.loading[repo] = Def(TRUE)]
  /\ UNCHANGED <<clock, orgVars, restSide>>

\* Lines 57-75: api.getRepoLabels resolves.
GetRepoLabelsResolves(c, labels) ==
  /\ lcall[c].pc = "getRepoLabels"
  /\ LET repoKey == lcall[c].repo IN
       labelStore' = [labelStore EXCEPT !.labels[repoKey] = Def(labels),
                                        !.lastFetched[repoKey] = Def(lcall[c].now),
                                        !.loading[repoKey] = Def(FALSE)]
  /\ lcall' = [lcall EXCEPT ![c] =
                 [Settled(lcall[c]) EXCEPT !.pc = "done", !.out = labels]]
  /\ UNCHANGED <<clock, orgVars, restSide>>

\* A catch block that leaves loading set.
GetRepoLabelsRejectsKeepsGuard(c) ==
  /\ lcall[c].pc = "getRepoLabels"
  /\ lcall' = [lcall EXCEPT ![c] =
                 [Settled(lcall[c]) EXCEPT !.pc = "failed",
                                           !.out = ListOf(lcall[c].cached)]]
  /\ UNCHANGED <<labelStore, clock, orgVars, restSide>>

\* Lines 76-86: the catch block.
GetRepoLabelsRejects(c) ==
  /\ lcall[c].pc = "getRepoLabels"
  /\ labelStore' = [labelStore EXCEPT !.loading[lcall[c].repo] = Def(FALSE)]
  /\ lcall' = [lcall EXCEPT ![c] =
                 [Settled(lcall[c]) EXCEPT !.pc = "failed",
                                           !.out = ListOf(lcall[c].cached)]]
  /\ UNCHANGED <<clock, orgVars, restSide>>

\* Time passes.
Tick ==
  /\ clock < CACHE_DURATION + MaxTicks
  /\ clock' = clock + 1
  /\ UNCHANGED <<labelStore, lcall, orgVars, restSide>>

LabelNext ==
  \/ \E c \in LCalls, r \in LabelRepos, f \in BOOLEAN : fetchLabels(c, r, f)
  \/ \E c \in LCalls, l \in RepoLabels : GetRepoLabelsResolves(c, l)
  \/ \E c \in LCalls : GetRepoLabelsRejects(c)
  \/ Tick

LabelSpec == IssueInit /\ [][LabelNext]_vars

\* The fetches of the repository that are outstanding.
Outstanding(repo) ==
  {c \in LCalls : lcall[c].pc = "getRepoLabels" /\ lcall[c].repo = repo}

\* C33: a call that is not forced and finds a fresh, non-empty cached list
\* returns that list and makes no remote call; a call, forced or not, made
\* while a fetch of the repository is outstanding makes no remote call and
\* returns the cached list or the empty list; neither changes the store;
\* and at most one fetch per repository is outstanding.
C33_CacheAndSingleFlight ==
  /\ [](\A r \in LabelRepos : Cardinality(Outstanding(r)) <= 1)
  /\ [][\A c \in LCalls, r \in LabelRepos, f \in BOOLEAN :
          (fetchLabels(c, r, f) /\ ~f /\ Fresh(r, clock))
            => /\ lcall'[c].pc = "done"
               /\ lcall'[c].remote = 0
               /\ lcall'[c].out = labelStore.labels[r][1]
               /\ UNCHANGED labelStore]_vars
  /\ [][\A c \in LCalls, r \in LabelRepos, f \in BOOLEAN :
          (fetchLabels(c, r, f) /\ Outstanding(r) # {})
            => /\ lcall'[c].pc = "done"
               /\ lcall'[c].remote = 0
               /\ lcall'[c].out = ListOf(labelStore.labels[r])
               /\ UNCHANGED labelStore]_vars

\* The first call fetched one label; the second, forced, is outstanding;
\* the third, forced too, returned the cached list without a remote call.
C33_Witness ==
  /\ lcall[1].pc = "done" /\ lcall[1].remote = 1
  /\ lcall[2].pc = "getRepoLabels" /\ lcall[2].force
  /\ lcall[3].pc = "done" /\ lcall[3].force /\ lcall[3].remote = 0
  /\ lcall[1].repo = lcall[2].repo /\ lcall[2].repo = lcall[3].repo
  /\ lcall[3].out = <<"bug">>

\* C34: when api.getRepoLabels fails, labels and lastFetched are unchanged,
\* the call returns the list that was cached when it was made (or the empty
\* list), and loading of the repository is false; loading of a repository
\* is true only while a fetch of it is outstanding, so after every fetch
\* that settled it is false and a later call can fetch again.
C34_FailedFetchKeepsCache ==
  /\ [](\A r \in LabelRepos : IsLoading(r) => Outstanding(r) # {})
  /\ [][\A c \in LCalls :
          GetRepoLabelsRejects(c)
            => /\ labelStore'.labels = labelStore.labels
               /\ labelStore'.lastFetched = labelStore.lastFetched
               /\ labelStore'.loading[lcall[c].repo] = Def(FALSE)
               /\ lcall'[c].out = ListOf(lcall[c].cached)]_vars
  /\ [][\A c \in LCalls, l \in RepoLabels :
          GetRepoLabelsResolves(c, l)
            => labelStore'.loading[lcall[c].repo] = Def(FALSE)]_vars

\* The first call cached one label; the second, forced, failed and returned
\* that list, and the cache is as before; the third fetched again.
C34_Witness ==
  /\ lcall[1].pc = "done" /\ lcall[1].out = <<"bug">>
  /\ lcall[2].pc = "failed" /\ lcall[2].force /\ lcall[2].out = <<"bug">>
  /\ lcall[3].pc = "getRepoLabels" /\ lcall[3].remote = 1
  /\ lcall[1].repo = lcall[2].repo /\ lcall[2].repo = lcall[3].repo
  /\ labelStore.labels[lcall[2].repo] = Def(<<"bug">>)
  /\ labelStore.lastFetched[lcall[2].repo] # Undefined


(***************************************************************************)
(* Part 5: the organization store                                          *)
(* (src/src/renderer/stores/organizationSyncStore.ts).                     *)
(*                                                                         *)
(* localStorage.setItem is taken to succeed, as in the other stores.  A    *)
(* GitHubAPI that cannot be built throws inside the try block and is       *)
(* caught like a remote call that rejects.                                 *)
(***************************************************************************)

\* The logins of a list.
LoginsOf(orgs) == {orgs[i].login : i \in 1..Len(orgs)}

\* Lines 57 and 63, savedSyncMap.get(login) ?? true: the Map keeps the last
\* entry of a login.
SavedSync(savedOrgs, login) ==
  IF login \in LoginsOf(savedOrgs)
    THEN LET last == CHOOSE i \in 1..Len(savedOrgs) :
                       /\ savedOrgs[i].login = login
                       /\ \A j \in (i + 1)..Len(savedOrgs) : savedOrgs[j].login # login
         IN savedOrgs[last].isSyncing
    ELSE TRUE

\* Lines 60-64: the answer with the saved settings.
OrgsWithSettings(orgs, savedOrgs) ==
  [i \in 1..Len(orgs) |-> OrgSetting(orgs[i], SavedSync(savedOrgs, orgs[i]))]

\* Lines 80-82: the list with the setting of one login replaced.
Toggled(orgs, orgLogin, syncing) ==
  [i \in 1..Len(orgs) |->
     IF orgs[i].login = orgLogin THEN OrgSetting(orgLogin, syncing) ELSE orgs[i]]

\* Lines 48-55: the call, up to api.getUserOrganizations.
fetchUserOrganizations(c) ==
  /\ ocall[c].pc = "init"
  /\ \A d \in OCalls : d < c => ocall[d].pc # "init"
  /\ orgStore' = [orgStore EXCEPT !.loading = TRUE]
  /\ ocall' = [ocall EXCEPT ![c].pc = "getUserOrganizations"]
  /\ UNCHANGED <<orgStorage, labelVars, restSide>>

\* A completion that gives every organization the default setting.
GetUserOrganizationsResolvesDefaults(c, orgs) ==
  /\ ocall[c].pc = "getUserOrganizations"
  /\ LET orgsWithSettings == OrgsWithSettings(orgs, << >>) IN
       /\ orgStore' = [organizations |-> orgsWithSettings, loading |-> FALSE]
       /\ orgStorage' = Def(JSONstringify(orgsWithSettings))
  /\ ocall' = [ocall EXCEPT ![c].pc = "done"]
  /\ UNCHANGED <<labelVars, restSide>>

\* Lines 55-68 and 73-75: api.getUserOrganizations resolves; the settings
\* are those of the list as it is now.
GetUserOrganizationsResolves(c, orgs) ==
  /\ ocall[c].pc = "getUserOrganizations"
  /\ LET orgsWithSettings == OrgsWithSettings(orgs, orgStore.organizations) IN
       /\ orgStore' = [organizations |-> orgsWithSettings, loading |-> FALSE]
       /\ orgStorage' = Def(JSONstringify(orgsWithSettings))
  /\ ocall' = [ocall EXCEPT ![c].pc = "done"]
  /\ UNCHANGED <<labelVars, restSide>>

\* Lines 69-75: the catch block and the finally block.
GetUserOrganizationsRejects(c) ==
  /\ ocall[c].pc = "getUserOrganizations"
  /\ orgStore' = [orgStore EXCEPT !.loading = FALSE]
  /\ ocall' = [ocall EXCEPT ![c].pc = "failed"]
  /\ UNCHANGED <<orgStorage, labelVars, restSide>>

\* Lines 78-86.  The list is saved whether it changed or not.
toggleOrgSync(orgLogin, syncing) ==
  /\ LET updated == Toggled(orgStore.organizations, orgLogin, syncing) IN
       /\ orgStore' = [orgStore EXCEPT !.organizations = updated]
       /\ orgStorage' = Def(JSONstringify(updated))
  /\ ocall' = [c \in OCalls |->
                 IF /\ ocall[c].pc = "getUserOrganizations"
                    /\ orgLogin \in LoginsOf(orgStore.organizations)
                   THEN [ocall[c] EXCEPT !.toggled[orgLogin] = Def(syncing)]
                   ELSE ocall[c]]
  /\ UNCHANGED <<labelVars, restSide>>

OrgNext ==
  \/ \E c \in OCalls : fetchUserOrganizations(c)
  \/ \E c \in OCalls, orgs \in OrgAnswers : GetUserOrganizationsResolves(c, orgs)
  \/ \E c \in OCalls : GetUserOrganizationsRejects(c)
  \/ \E l \in Logins, v \in BOOLEAN : toggleOrgSync(l, v)

OrgInit ==
  /\ SyncStoreInit
  /\ selectedRepo = NoRepo
  /\ recentlyViewedRepos = << >>
  /\ IssueStoreInit
  /\ DevinStoreInit(TRUE, NoSnapshot)
  /\ LabelStoreInit
  /\ \E stored \in StoredOrgsAtStart : OrgStoreInit(stored)

OrgSpec == OrgInit /\ [][OrgNext]_vars

C36_ToggleDuringFetchKept ==
  /\ [][\A c \in OCalls, orgs \in OrgAnswers :
          GetUserOrganizationsResolves(c, orgs)
            => \A i \in 1..Len(orgs) :
                 ocall[c].toggled[orgs[i]] # Undefined
                   => /\ orgStore'.organizations[i].isSyncing
                           = ocall[c].toggled[orgs[i]][1]
                      /\ loadFromStorage(orgStorage')[i].isSyncing
                           = ocall[c].toggled[orgs[i]][1]]_vars
  /\ [][\A l \in Logins, v \in BOOLEAN :
          toggleOrgSync(l, v)
            => /\ Len(orgStore'.organizations) = Len(orgStore.organizations)
               /\ \A i \in 1..Len(orgStore.organizations) :
                    /\ orgStore'.organizations[i].login = orgStore.organizations[i].login
                    /\ orgStore.organizations[i].login # l
                         => orgStore'.organizations[i] = orgStore.organizations[i]]_vars

====
